---- MODULE Spec2Model ----
(***************************************************************************)
(* Model of the Titan exchange simulator:                                  *)
(*   - the per-symbol matching engine (OrderEngine) over the binary Heap,  *)
(*   - the DoubleBuffer job queue and the JobScheduler worker loop,        *)
(*   - the EngineRuntime dispatch path that feeds the scheduler.           *)
(* Heaps are modelled as the std::vector they are stored in; an index i of *)
(* the C++ code is position i + 1 of the sequence.                         *)
(***************************************************************************)
EXTENDS Integers, Sequences, FiniteSets, TLC

(***************************************************************************)
(* Bounds of the model.                                                    *)
(***************************************************************************)
MaxOrders == 3
MaxPrice == 2
MaxQty == 2
MaxTime == 1
MaxTrades == 2
MaxEdits == 1
\* runtime construction: number of worker threads, and the batch_size argument
\* (queue capacity, argument-arena capacity and auto-batch threshold)
NumWorkers == 2
BatchSize == 3
\* the longer runs of limit orders (SpecLimits): orders placed, price ticks
MaxLimitOrders == 5
MaxLimitPrice == 3
\* the runtime's cancel and edit requests (SpecOwners): order ids named
MaxJobOrderId == 1
\* engines the runtime registers before a reset
MaxEngines == 1
\* the heap on its own (SpecHeap): elements held, and their values 1..MaxHeapValue
MaxHeapLen == 6
MaxHeapValue == 3
\* the arena on its own (SpecArena): slots reserved, and values 1..MaxArenaValue
ArenaCapacity == 3
MaxArenaValue == 2

(***************************************************************************)
(* Program constants.                                                      *)
(***************************************************************************)
\* price argument the runtime passes for a MARKET order
MARKET_PRICE_ARG == -1
\* static_cast<OrderId>(-1): the invalid / rejection id, and Heap::find's "absent"
NOT_FOUND == -1
\* sentinel of get_best_bid / get_best_ask / get_market_price
NO_PRICE == -1
\* the user that owns the IPO order of a registered stock
IPO_HOLDER == 0
\* Arena::emplace's return -1 when no slot is left
ARENA_FULL == -1
\* the user_id a runtime order operation defaults to
DEFAULT_USER == 1
\* get_instance's default_capacity, which batch_size_ takes when batch_size is 0
DEFAULT_CAPACITY == 32768
\* the depth get_market_depth defaults to
DEFAULT_DEPTH == 10

Prices == 1..MaxPrice
Quantities == 1..MaxQty
Sides == {"BID", "ASK"}
Types == {"LIMIT", "MARKET"}
\* values an out-of-bounds read of a price Heap can yield
StalePrices == Prices \cup {MARKET_PRICE_ARG}

UserIds == {IPO_HOLDER, DEFAULT_USER}
Workers == 0..(NumWorkers - 1)

\* engine, now: one OrderEngine and the value std::time returns.
\* runtime, job_queues_, workers_, client: the EngineRuntime, its scheduler's
\* queues and worker threads, and the single client (producer) thread.
\* history: ghost record of what has been flushed and executed, and of the
\* last call made on the engine (SpecCalls).
VARIABLES engine, now, runtime, job_queues_, workers_, client, history

engineVars == <<engine, now>>
schedVars == <<runtime, job_queues_, workers_, client, history>>
vars == <<engine, now, runtime, job_queues_, workers_, client, history>>

(***************************************************************************)
(* tools/Heap.cpp                                                          *)
(***************************************************************************)
\* the comparison that moves an element towards the root, per HeapType.
\* "LEVEL" is HeapType::MIN over std::pair<time_t, OrderId> (OrderLevel).
Before(TYPE, a, b) ==
    CASE TYPE = "MIN" -> a < b
      [] TYPE = "MAX" -> a > b
      [] TYPE = "LEVEL" -> a[1] < b[1] \/ (a[1] = b[1] /\ a[2] < b[2])

Swap(h, i, j) == [h EXCEPT ![i + 1] = h[j + 1], ![j + 1] = h[i + 1]]

RECURSIVE heapify_up(_, _, _)
heapify_up(TYPE, h, idx) ==
    IF idx > 0
    THEN LET parent == (idx - 1) \div 2
         IN  IF Before(TYPE, h[idx + 1], h[parent + 1])
             THEN heapify_up(TYPE, Swap(h, idx, parent), parent)
             ELSE h
    ELSE h

\* the child heapify_down swaps with, or idx when the element is in place
best_of(TYPE, h, best_child, child) ==
    IF Before(TYPE, h[child + 1], h[best_child + 1]) THEN child ELSE best_child

best_child(TYPE, h, idx) ==
    best_of(TYPE, h,
            best_of(TYPE, h, idx, IF (idx * 2) + 1 < Len(h) THEN (idx * 2) + 1 ELSE idx),
            IF (idx * 2) + 2 < Len(h) THEN (idx * 2) + 2 ELSE idx)

RECURSIVE heapify_down(_, _, _)
sift_down(TYPE, h, idx, best) ==
    IF best = idx THEN h ELSE heapify_down(TYPE, Swap(h, idx, best), best)

heapify_down(TYPE, h, idx) ==
    IF idx < Len(h) THEN sift_down(TYPE, h, idx, best_child(TYPE, h, idx)) ELSE h

push(TYPE, h, data) == heapify_up(TYPE, Append(h, data), Len(h))

\* pop(idx).  With idx = -1 on a non-empty heap the swap touches heap_[-1]
\* (undefined behaviour): the element swapped in from outside the vector is
\* the one pop_back drops, and heapify_down(-1) does nothing because -1
\* compares as a huge unsigned value.  PopIsUB flags that case.
pop(TYPE, h, idx) ==
    IF Len(h) = 0 THEN h
    ELSE IF idx = NOT_FOUND THEN SubSeq(h, 1, Len(h) - 1)
    ELSE heapify_down(TYPE, SubSeq(Swap(h, idx, Len(h) - 1), 1, Len(h) - 1), idx)

PopIsUB(h, idx) == Len(h) > 0 /\ idx = NOT_FOUND

\* peek(): heap_[0]; on an empty heap the read is out of bounds and yields
\* whatever the caller-supplied stale value is.
peek(h, stale) == IF Len(h) > 0 THEN h[1] ELSE stale

find(h, data) ==
    IF \E i \in 1..Len(h) : h[i] = data
    THEN (CHOOSE i \in 1..Len(h) : h[i] = data /\ \A j \in 1..(i - 1) : h[j] # data) - 1
    ELSE NOT_FOUND

(***************************************************************************)
(* LevelMap = std::unordered_map<Price, OrderLevel>                        *)
(***************************************************************************)
LevelAt(levels, p) == IF p \in DOMAIN levels THEN levels[p] ELSE <<>>

SetLevel(levels, p, v) ==
    [q \in (DOMAIN levels) \cup {p} |-> IF q = p THEN v ELSE levels[q]]

\* operator[] default-constructs a missing level
Touch(levels, p) == SetLevel(levels, p, LevelAt(levels, p))

Erase(levels, p) == [q \in (DOMAIN levels) \ {p} |-> levels[q]]

(***************************************************************************)
(* OrderEngine                                                             *)
(***************************************************************************)
OrderInfo(side, type, qty, price, id, t, status) ==
    [time_ |-> t, qty_ |-> qty, price_ |-> price, id_ |-> id,
     status_ |-> status, type_ |-> type, side_ |-> side]

\* The order table maps every id handed out to its arena slot; slots are
\* never reclaimed, so the pool is indexed by id.
\* Ghost fields (not in the code): arrivals = ids in the order they were last
\* queued, passive_price_ = stored price of the non-incoming order of the last
\* trade, oob = the call in progress has made an out-of-bounds access (FALSE
\* between calls), ub = some call so far has made one, edits = number of
\* successful edit_order calls.
NewEngine(auto_match) ==
    [order_pool_ |-> <<>>, ask_book_ |-> <<>>, bid_book_ |-> <<>>,
     ask_levels_ |-> <<>>, bid_levels_ |-> <<>>,
     recent_order_id_ |-> NOT_FOUND, next_order_id_ |-> 0,
     auto_match_ |-> auto_match, last_trade_price_ |-> NO_PRICE, num_trades_ |-> 0,
     arrivals |-> <<>>, passive_price_ |-> NO_PRICE, oob |-> FALSE, ub |-> FALSE,
     edits |-> 0]

HasOrder(e, id) == id \in 0..(e.next_order_id_ - 1)
Order(e, id) == e.order_pool_[id + 1]
LevelsOf(e, side) == IF side = "BID" THEN e.bid_levels_ ELSE e.ask_levels_
BookOf(e, side) == IF side = "BID" THEN e.bid_book_ ELSE e.ask_book_
HeapTypeOf(side) == IF side = "BID" THEN "MAX" ELSE "MIN"
SetSide(e, side, book, levels) ==
    IF side = "BID"
    THEN [e EXCEPT !.bid_book_ = book, !.bid_levels_ = levels]
    ELSE [e EXCEPT !.ask_book_ = book, !.ask_levels_ = levels]

Min(a, b) == IF a < b THEN a ELSE b

Without(s, x) == SelectSeq(s, LAMBDA y : y # x)

\* the "Place Order" switch shared by place_order and edit_order: the level
\* is looked up under the price ARGUMENT, not the order's stored price_
queue_order(e, side, price, key, fresh) ==
    [SetSide(e, side,
             IF fresh THEN push(HeapTypeOf(side), BookOf(e, side), price) ELSE BookOf(e, side),
             SetLevel(LevelsOf(e, side), price,
                      push("LEVEL", IF fresh THEN <<>> ELSE LevelAt(LevelsOf(e, side), price), key)))
        EXCEPT !.arrivals = Append(Without(@, key[2]), key[2])]

insert_level(e, side, price, t, id) ==
    queue_order(e, side, price, <<t, id>>, find(BookOf(e, side), price) = NOT_FOUND)

\* the "Price Check" of a LIMIT order, shared by place_order and edit_order
adjust_price(e, side, price) ==
    IF side = "ASK" /\ Len(e.bid_book_) > 0 /\ price < e.bid_book_[1] THEN e.bid_book_[1]
    ELSE IF side = "BID" /\ Len(e.ask_book_) > 0 /\ price > e.ask_book_[1] THEN e.ask_book_[1]
    ELSE price

\* matching(): "Update quantities", one operand of the two
fill_qty(e, id, qty_filled) == [e EXCEPT !.order_pool_[id + 1].qty_ = @ - qty_filled]

\* matching(): "Record trade"
record_trade(e, ask_id, passive) ==
    [e EXCEPT !.last_trade_price_ = Order(e, ask_id).price_,
              !.num_trades_ = @ + 1,
              !.passive_price_ = Order(e, passive).price_]

\* a matching() that leaves the status of an exhausted order alone
keeps_status(e, id) == e

\* matching(): "Update statuses", one operand of the two
mark_filled(e, id) ==
    IF Order(e, id).qty_ = 0 THEN [e EXCEPT !.order_pool_[id + 1].status_ = "FILLED"] ELSE e

\* matching(): "Clean up filled orders from book" for one side.  The head of
\* the level passed by reference (its key is lp) is popped; when that empties
\* it the root of the side's heap is popped and the map entry keyed by the
\* order's stored price_ is erased.
drop_head(e, side, lp, lvl, stored) ==
    IF lvl = <<>>
    THEN SetSide(e, side, pop(HeapTypeOf(side), BookOf(e, side), 0),
                 Erase(SetLevel(LevelsOf(e, side), lp, lvl), stored))
    ELSE SetSide(e, side, BookOf(e, side), SetLevel(LevelsOf(e, side), lp, lvl))

clean_up(e, side, id, lp) ==
    IF Order(e, id).qty_ = 0
    THEN drop_head(e, side, lp, pop("LEVEL", LevelsOf(e, side)[lp], 0), Order(e, id).price_)
    ELSE e

\* one trade between the orders ask_id and bid_id; pa / pb are the keys of
\* the levels the caller passed by reference
trade(e, ask_id, bid_id, pa, pb, qty_filled, passive) ==
    clean_up(
      clean_up(
        mark_filled(
          mark_filled(
            record_trade(fill_qty(fill_qty(e, ask_id, qty_filled), bid_id, qty_filled),
                         ask_id, passive),
            ask_id),
          bid_id),
        "ASK", ask_id, pa),
      "BID", bid_id, pb)

matching(e, ask_id, bid_id, pa, pb) ==
    trade(e, ask_id, bid_id, pa, pb,
          Min(Order(e, ask_id).qty_, Order(e, bid_id).qty_),
          IF ask_id = e.recent_order_id_ THEN bid_id ELSE ask_id)

can_trade(recent_order, best_ask_price, best_bid_price) ==
    \/ recent_order.side_ = "ASK" /\ best_bid_price >= recent_order.price_
    \/ recent_order.side_ = "BID" /\ best_ask_price <= recent_order.price_

\* the two peeks at the top of the match loop: one of them is out of bounds
\* when the book it reads has been emptied
read_best(e) == [e EXCEPT !.oob = @ \/ Len(e.ask_book_) = 0 \/ Len(e.bid_book_) = 0]

\* "Get price levels ONCE": operator[] creates a level that is missing
get_levels(e, best_ask_price, best_bid_price) ==
    [e EXCEPT !.ask_levels_ = Touch(@, best_ask_price),
              !.bid_levels_ = Touch(@, best_bid_price)]

\* the match loop of matching_engine; stale is what peek() of an emptied
\* book reads
RECURSIVE match_loop(_, _)
match_levels(e, stale, best_ask_price, best_bid_price) ==
    IF e.ask_levels_[best_ask_price] = <<>> \/ e.bid_levels_[best_bid_price] = <<>> THEN e
    ELSE IF Order(e, e.recent_order_id_).side_ = "ASK"
    THEN match_loop(matching(e, e.recent_order_id_, e.bid_levels_[best_bid_price][1][2],
                             best_ask_price, best_bid_price), stale)
    ELSE match_loop(matching(e, e.ask_levels_[best_ask_price][1][2], e.recent_order_id_,
                             best_ask_price, best_bid_price), stale)

match_prices(e, stale, best_ask_price, best_bid_price) ==
    IF ~can_trade(Order(e, e.recent_order_id_), best_ask_price, best_bid_price)
    THEN read_best(e)
    ELSE match_levels(get_levels(read_best(e), best_ask_price, best_bid_price),
                      stale, best_ask_price, best_bid_price)

match_loop(e, stale) ==
    IF Order(e, e.recent_order_id_).status_ = "OPEN" /\ Order(e, e.recent_order_id_).qty_ > 0
    THEN match_prices(e, stale, peek(e.ask_book_, stale), peek(e.bid_book_, stale))
    ELSE e

matching_engine(e, stale) ==
    IF ~HasOrder(e, e.recent_order_id_) THEN e
    ELSE IF Len(e.ask_book_) = 0 \/ Len(e.bid_book_) = 0 THEN e
    ELSE match_loop(e, stale)

\* the tail of place_order and edit_order
auto_match(e, stale) == IF e.auto_match_ THEN matching_engine(e, stale) ELSE e

set_recent(e, id) == [e EXCEPT !.recent_order_id_ = id]

\* next_order_id_++ and the OrderInfo emplaced in the pool, with the price_
\* and status_ the "Price Check" leaves it with
new_order(e, side, type, qty, stored, t, status) ==
    [e EXCEPT !.next_order_id_ = @ + 1,
              !.order_pool_ = Append(@, OrderInfo(side, type, qty, stored, e.next_order_id_, t, status))]

market_rejected(e, side, type) ==
    /\ type = "MARKET"
    /\ \/ side = "ASK" /\ Len(e.bid_book_) = 0
       \/ side = "BID" /\ Len(e.ask_book_) = 0

stored_price(e, side, type, price) ==
    IF type = "LIMIT" THEN adjust_price(e, side, price)
    ELSE IF side = "ASK" THEN e.bid_book_[1] ELSE e.ask_book_[1]

\* a place_order without the liquidity check of MARKET orders
queues_every_order(e, side, type, price, qty, t, stale) ==
    auto_match(
      set_recent(
        insert_level(new_order(e, side, type, qty, price, t, "OPEN"),
                     side, price, t, e.next_order_id_),
        e.next_order_id_),
      stale)

place_order(e, side, type, price, qty, t, stale) ==
    IF market_rejected(e, side, type)
    THEN new_order(e, side, type, qty, price, t, "REJECTED")
    ELSE auto_match(
           set_recent(
             insert_level(
               new_order(e, side, type, qty, stored_price(e, side, type, price), t, "OPEN"),
               side, price, t, e.next_order_id_),
             e.next_order_id_),
           stale)

\* a guard that lets cancel_order proceed on any order of the table
cancels_any_order(e, id) == HasOrder(e, id)

\* the guard of cancel_order: what it returns
can_cancel(e, id) ==
    /\ HasOrder(e, id)
    /\ Order(e, id).status_ = "OPEN"
    /\ Order(e, id).type_ = "LIMIT"

\* cancel_order once the level entry has been popped: price_level is the
\* level keyed by the order's stored price_ after the pop, at the index of
\* that price in the side's heap
unlink_level(e, order, price_level, at, ub) ==
    [SetSide(e, order.side_,
             IF price_level = <<>> /\ at # NOT_FOUND
             THEN pop(HeapTypeOf(order.side_), BookOf(e, order.side_), at)
             ELSE BookOf(e, order.side_),
             IF price_level = <<>> /\ at # NOT_FOUND
             THEN Erase(LevelsOf(e, order.side_), order.price_)
             ELSE SetLevel(LevelsOf(e, order.side_), order.price_, price_level))
        EXCEPT !.order_pool_[order.id_ + 1].status_ = "CANCELLED",
               !.arrivals = Without(@, order.id_),
               !.oob = @ \/ ub]

pop_from_level(e, order, level, idx) ==
    unlink_level(e, order, pop("LEVEL", level, idx),
                 find(BookOf(e, order.side_), order.price_), PopIsUB(level, idx))

cancel_order(e, id) ==
    IF ~can_cancel(e, id) THEN e
    ELSE pop_from_level(e, Order(e, id),
                        LevelAt(LevelsOf(e, Order(e, id).side_), Order(e, id).price_),
                        find(LevelAt(LevelsOf(e, Order(e, id).side_), Order(e, id).price_),
                             <<Order(e, id).time_, Order(e, id).id_>>))

\* edit_order: "Modify Info" and "Price Check"
modify(e, id, side, qty, stored, t) ==
    [e EXCEPT !.order_pool_[id + 1].side_ = side,
              !.order_pool_[id + 1].qty_ = qty,
              !.order_pool_[id + 1].price_ = stored,
              !.order_pool_[id + 1].time_ = t]

reopen(e, id) ==
    [e EXCEPT !.order_pool_[id + 1].status_ = "OPEN",
              !.recent_order_id_ = id, !.edits = @ + 1]

\* edit_order after its cancel_order succeeded and left the engine as c
requeue(c, id, side, price, qty, t, stale) ==
    auto_match(
      reopen(insert_level(modify(c, id, side, qty, adjust_price(c, side, price), t),
                          side, price, t, id),
             id),
      stale)

edit_order(e, id, side, price, qty, t, stale) ==
    IF ~can_cancel(e, id) THEN e
    ELSE requeue(cancel_order(e, id), id, side, price, qty, t, stale)

get_best_ask(e) == IF Len(e.ask_book_) = 0 THEN NO_PRICE ELSE e.ask_book_[1]
get_best_bid(e) == IF Len(e.bid_book_) = 0 THEN NO_PRICE ELSE e.bid_book_[1]
get_market_price(e) == e.last_trade_price_

\* get_market_depth: the inner loop, summing qty_ over a copy of the level
RECURSIVE level_total(_, _)
level_total(e, best_level) ==
    IF Len(best_level) > 0
    THEN Order(e, best_level[1][2]).qty_ + level_total(e, pop("LEVEL", best_level, 0))
    ELSE 0

\* get_market_depth: the outer loop over a copy of the side's heap, i rows
\* still to go.  levels_.at() throws std::out_of_range for a price of the
\* heap that has no level: threw is set and the rows are lost.
RECURSIVE depth_rows(_, _, _, _, _)
depth_rows(e, side, tmp_book, i, depth_result) ==
    IF i > 0 /\ Len(tmp_book) > 0
    THEN IF tmp_book[1] \notin DOMAIN LevelsOf(e, side)
         THEN [threw |-> TRUE, depth_result |-> <<>>]
         ELSE depth_rows(e, side, pop(HeapTypeOf(side), tmp_book, 0), i - 1,
                         Append(depth_result,
                                <<tmp_book[1], level_total(e, LevelsOf(e, side)[tmp_book[1]])>>))
    ELSE [threw |-> FALSE, depth_result |-> depth_result]

get_market_depth(e, side, depth) == depth_rows(e, side, BookOf(e, side), depth, <<>>)

\* the call returns: its out-of-bounds flag is folded into ub
settle(e) == [e EXCEPT !.ub = @ \/ e.oob, !.oob = FALSE]

\* no engine call so far has read out of the bounds of a heap: everything
\* observed of the engine is then the defined behaviour of the code
Defined(e) == ~e.ub

\* The engines a call can leave: one when the call (probed with the sentinel
\* as the stale value) made no out-of-bounds read, and one per value the read
\* can yield when it did.
outcomes(probe, results) == IF probe.oob THEN results ELSE {probe}

place_outcomes(e, side, type, price, qty, t) ==
    outcomes(place_order(e, side, type, price, qty, t, NO_PRICE),
             {settle(place_order(e, side, type, price, qty, t, stale)) : stale \in StalePrices})

edit_outcomes(e, id, side, price, qty, t) ==
    outcomes(edit_order(e, id, side, price, qty, t, NO_PRICE),
             {settle(edit_order(e, id, side, price, qty, t, stale)) : stale \in StalePrices})

(***************************************************************************)
(* The engine driven directly (the engine's own test driver): any sequence *)
(* of its public operations, with std::time advancing between calls.       *)
(***************************************************************************)
EngineInit ==
    /\ engine = NewEngine(TRUE)
    /\ now = 0

(***************************************************************************)
(* tools/double_buffer.cpp: DoubleBuffer<Job>, and the scheduler's Job     *)
(***************************************************************************)
\* execute is <<>> for an empty std::function and <<args_idx>> for the
\* closure the runtime builds over the argument-arena slot args_idx
Job(execute, owner_id) == [execute |-> execute, owner_id |-> owner_id]

\* what std::move leaves in the slot it moved from: an empty std::function
moved_from(job) == [job EXCEPT !.execute = <<>>]

DoubleBuffer(capacity) ==
    [buffer_a_ |-> [i \in 1..capacity |-> Job(<<>>, 0)],
     buffer_b_ |-> [i \in 1..capacity |-> Job(<<>>, 0)],
     write_buffer_ |-> "buffer_a_", read_buffer_ |-> "buffer_b_",
     swap_requested_ |-> FALSE,
     read_index_ |-> 0, write_index_ |-> 0, read_size_ |-> 0,
     capacity_ |-> capacity]

\* try_push succeeds
can_push(q) == ~q.swap_requested_ /\ q.write_index_ < q.capacity_

try_push(q, value) ==
    IF can_push(q)
    THEN [q EXCEPT ![q.write_buffer_][q.write_index_ + 1] = value,
                   !.write_index_ = @ + 1]
    ELSE q

empty(q) == q.read_index_ >= q.read_size_ /\ q.write_index_ = 0

full(q) == q.write_index_ >= q.capacity_

(***************************************************************************)
(* backtesting-engine/job_scheduler.cpp and engine_runtime.cpp: state      *)
(***************************************************************************)
\* a worker thread in worker_loop: its position, the locals idx and size of
\* the try_pop in progress, and the local job it pops into
WorkerThread == [pc |-> "try_pop", idx |-> 0, size |-> 0, job |-> Job(<<>>, 0)]

OrderJobArgs(side, type, price, qty, order_id, user_id) ==
    [side |-> side, type |-> type, price |-> price, qty |-> qty,
     order_id |-> order_id, user_id |-> user_id]

\* One stock can be registered; its engine is the variable engine.
\* cells[w][i + 1] is the caller's result cell of the job built over slot i of
\* worker w's arena: <<>> until it is written, <<value>> afterwards.
\* rejected is the result cell of the last request rejected before enqueueing.
EngineRuntime(batch_size, blocking) ==
    [registered |-> FALSE, engine_id_ |-> 0, worker_id_ |-> 0, batch_counter_ |-> 0,
     next_engine_id_ |-> 0, blocking_mode_ |-> blocking, batch_size_ |-> batch_size,
     arena_capacity_per_worker |-> batch_size,
     user_orders_ |-> [u \in UserIds |-> {}],
     worker_arenas_ |-> [w \in Workers |-> <<>>],
     cells |-> [w \in Workers |-> <<>>],
     rejected |-> <<>>]

\* the client thread: idle between calls, or inside a runtime call
ClientThread == [pc |-> "idle", worker |-> 0, all |-> FALSE, args |-> <<>>]

\* the ghost record of an engine call: the operation and its arguments
Call(op, side, type, price, qty, id) ==
    [op |-> op, side |-> side, type |-> type, price |-> price, qty |-> qty, id |-> id]

NoCall == Call("none", "BID", "LIMIT", 0, 0, 0)

Init ==
    /\ EngineInit
    /\ runtime = EngineRuntime(BatchSize, TRUE)
    /\ job_queues_ = [w \in Workers |-> DoubleBuffer(BatchSize)]
    /\ workers_ = [w \in Workers |-> WorkerThread]
    /\ client = ClientThread
    /\ history = [flushed |-> [w \in Workers |-> 0], started |-> [w \in Workers |-> <<>>],
                  call |-> NoCall]

CanGrow == engine.next_order_id_ < MaxOrders /\ engine.num_trades_ < MaxTrades

PlaceLimit ==
    /\ CanGrow
    /\ \E side \in Sides, price \in Prices, qty \in Quantities :
          engine' \in place_outcomes(engine, side, "LIMIT", price, qty, now)
    /\ UNCHANGED <<now, schedVars>>

PlaceMarket ==
    /\ CanGrow
    /\ \E side \in Sides, qty \in Quantities :
          engine' \in place_outcomes(engine, side, "MARKET", MARKET_PRICE_ARG, qty, now)
    /\ UNCHANGED <<now, schedVars>>

Cancel ==
    /\ \E id \in 0..MaxOrders : engine' = settle(cancel_order(engine, id))
    /\ UNCHANGED <<now, schedVars>>

Edit ==
    /\ engine.num_trades_ < MaxTrades
    /\ engine.edits < MaxEdits
    /\ \E id \in 0..MaxOrders, side \in Sides, price \in Prices, qty \in Quantities :
          engine' \in edit_outcomes(engine, id, side, price, qty, now)
    /\ UNCHANGED <<now, schedVars>>

Tick ==
    /\ now < MaxTime
    /\ now' = now + 1
    /\ UNCHANGED <<engine, schedVars>>

Next == PlaceLimit \/ PlaceMarket \/ Cancel \/ Edit \/ Tick

Spec == Init /\ [][Next]_vars

(***************************************************************************)
(* The same engine driven call by call within one second of std::time,     *)
(* each step recording the call it makes: the properties of single calls   *)
(* are stated on these steps.  Nothing is explored beyond a call that has  *)
(* read out of bounds.                                                     *)
(***************************************************************************)
Recorded(call) ==
    /\ Defined(engine)
    /\ history' = [history EXCEPT !.call = call]
    /\ UNCHANGED <<now, runtime, job_queues_, workers_, client>>

CallPlaceLimit ==
    /\ CanGrow
    /\ \E side \in Sides, price \in Prices, qty \in Quantities :
          /\ engine' \in place_outcomes(engine, side, "LIMIT", price, qty, now)
          /\ Recorded(Call("place_order", side, "LIMIT", price, qty, engine.next_order_id_))

CallPlaceMarket ==
    /\ CanGrow
    /\ \E side \in Sides, qty \in Quantities :
          /\ engine' \in place_outcomes(engine, side, "MARKET", MARKET_PRICE_ARG, qty, now)
          /\ Recorded(Call("place_order", side, "MARKET", MARKET_PRICE_ARG, qty,
                           engine.next_order_id_))

CallCancel ==
    \E id \in 0..MaxOrders :
        /\ engine' = settle(cancel_order(engine, id))
        /\ Recorded(Call("cancel_order", "BID", "LIMIT", 0, 0, id))

CallEdit ==
    /\ engine.num_trades_ < MaxTrades
    /\ engine.edits < MaxEdits
    /\ \E id \in 0..MaxOrders, side \in Sides, price \in Prices, qty \in Quantities :
          \* a failing edit_order reads none of side, price, qty: one choice of them
          /\ can_cancel(engine, id) \/ (side = "BID" /\ price = 1 /\ qty = 1)
          /\ engine' \in edit_outcomes(engine, id, side, price, qty, now)
          /\ Recorded(Call("edit_order", side, "LIMIT", price, qty, id))

NextCalls == CallPlaceLimit \/ CallPlaceMarket \/ CallCancel \/ CallEdit

SpecCalls == Init /\ [][NextCalls]_vars

(***************************************************************************)
(* Longer runs of the engine with LIMIT orders only, over one more price   *)
(* tick, each step recording its call.  Only calls that stay within        *)
(* defined behaviour are taken.                                            *)
(***************************************************************************)
CallLimitOnly ==
    /\ engine.next_order_id_ < MaxLimitOrders
    /\ \E side \in Sides, price \in 1..MaxLimitPrice, qty \in Quantities :
          /\ ~place_order(engine, side, "LIMIT", price, qty, now, NO_PRICE).oob
          /\ engine' = place_order(engine, side, "LIMIT", price, qty, now, NO_PRICE)
          /\ Recorded(Call("place_order", side, "LIMIT", price, qty, engine.next_order_id_))

SpecLimits == Init /\ [][CallLimitOnly]_vars

(***************************************************************************)
(* The runtime driven by one client thread, with the scheduler's worker    *)
(* threads running concurrently.  Every step is one access to the shared   *)
(* atomics of a queue (or a run of accesses no other thread can observe),  *)
(* in program order.                                                       *)
(***************************************************************************)
RECURSIVE sum_qty(_, _)
sum_qty(e, ids) ==
    IF ids = {} THEN 0
    ELSE LET id == CHOOSE x \in ids : TRUE
         IN  (IF HasOrder(e, id) /\ Order(e, id).status_ = "OPEN" /\ Order(e, id).side_ = "ASK"
              THEN Order(e, id).qty_ ELSE 0) + sum_qty(e, ids \ {id})

has_sufficient_shares(rt, e, user_id, qty) == sum_qty(e, rt.user_orders_[user_id]) >= qty

\* what place_order returns
place_result(e, side, type) ==
    IF market_rejected(e, side, type) THEN NOT_FOUND ELSE e.next_order_id_

\* the workers that are inside job.execute(), i.e. inside the engine
Running == {w \in Workers : workers_[w].pc = "running"}

\* a request rejected before enqueueing: -1 goes to the caller's cell
Reject ==
    /\ runtime' = [runtime EXCEPT !.rejected = <<NOT_FOUND>>]
    /\ client' = ClientThread
    /\ UNCHANGED <<engine, now, job_queues_, workers_, history>>

\* the runtime call returns to the client: per-engine batch counters cleared
returned(rt) == [rt EXCEPT !.batch_counter_ = 0]

\* limit_order from the arena emplace on: the slot, the job, submit_job and
\* the auto-batch counter
enqueue(rt, args) ==
    [rt EXCEPT !.worker_arenas_[rt.worker_id_] = Append(@, args),
               !.cells[rt.worker_id_] = Append(@, <<>>),
               !.batch_counter_ = @ + 1]

\* a Submit that does not look at what arena.emplace returned
submit_unchecked(args) ==
    /\ runtime' = enqueue(runtime, args)
    /\ job_queues_' =
          [job_queues_ EXCEPT ![runtime.engine_id_ % NumWorkers] =
              try_push(@, Job(<<Len(runtime.worker_arenas_[runtime.worker_id_])>>,
                              runtime.engine_id_))]
    /\ client' = ClientThread
    /\ UNCHANGED <<engine, now, workers_, history>>

Submit(args) ==
    IF Len(runtime.worker_arenas_[runtime.worker_id_]) >= runtime.arena_capacity_per_worker
    THEN Reject
    ELSE /\ runtime' = enqueue(runtime, args)
         /\ job_queues_' =
               [job_queues_ EXCEPT ![runtime.engine_id_ % NumWorkers] =
                   try_push(@, Job(<<Len(runtime.worker_arenas_[runtime.worker_id_])>>,
                                   runtime.engine_id_))]
         /\ client' =
               IF ~can_push(job_queues_[runtime.engine_id_ % NumWorkers])
               THEN [ClientThread EXCEPT !.pc = "submit_job"]
               ELSE IF runtime.batch_counter_ + 1 >= runtime.batch_size_
               THEN [ClientThread EXCEPT !.pc = "flush", !.worker = runtime.worker_id_]
               ELSE ClientThread
         /\ UNCHANGED <<engine, now, workers_, history>>

register_stock ==
    /\ client.pc = "idle"
    /\ ~runtime.registered
    /\ runtime.next_engine_id_ < MaxEngines
    /\ \E ipo_price \in {1}, ipo_qty \in {MaxQty} :
          engine' \in place_outcomes(NewEngine(TRUE), "ASK", "LIMIT", ipo_price, ipo_qty, now)
    /\ runtime' = [runtime EXCEPT !.registered = TRUE,
                                  !.engine_id_ = runtime.next_engine_id_,
                                  !.worker_id_ = runtime.next_engine_id_ % NumWorkers,
                                  !.next_engine_id_ = @ + 1,
                                  !.batch_counter_ = 0,
                                  !.user_orders_[IPO_HOLDER] = @ \cup {0}]
    /\ UNCHANGED <<now, job_queues_, workers_, client, history>>

\* limit_order up to the share check of an ASK, which reads the engine when
\* the user owns orders; the rest of the call is validate or Submit
limit_order_call(side, price, qty, user_id) ==
    IF ~runtime.registered THEN Reject
    ELSE IF price <= 0 \/ qty <= 0 THEN Reject
    ELSE IF side = "BID"
    THEN Submit(OrderJobArgs(side, "LIMIT", price, qty, 0, user_id))
    ELSE IF runtime.user_orders_[user_id] = {} THEN Reject
    ELSE /\ client' = [client EXCEPT !.pc = "has_sufficient_shares",
                                     !.args = OrderJobArgs(side, "LIMIT", price, qty, 0, user_id)]
         /\ UNCHANGED <<engine, now, runtime, job_queues_, workers_, history>>

limit_order ==
    /\ client.pc = "idle"
    /\ \E side \in Sides, price \in {0, 1}, qty \in {0, 1}, user_id \in UserIds :
          limit_order_call(side, price, qty, user_id)

\* has_sufficient_shares returns; when a worker is inside the engine the
\* reads race with its writes and the sum can come out either way
validate ==
    /\ client.pc = "has_sufficient_shares"
    /\ \E ok \in (IF Running # {} THEN BOOLEAN
                  ELSE {has_sufficient_shares(runtime, engine, client.args.user_id,
                                              client.args.qty)}) :
          IF ok THEN Submit(client.args) ELSE Reject

\* execute_batch(): flush every queue, then wait in blocking mode
execute_batch ==
    /\ client.pc = "idle"
    /\ client' = [client EXCEPT !.pc = "flush", !.worker = 0, !.all = TRUE]
    /\ UNCHANGED <<engine, now, runtime, job_queues_, workers_, history>>

set_blocking_mode ==
    /\ client.pc = "idle"
    /\ runtime' = [runtime EXCEPT !.blocking_mode_ = ~@]
    /\ UNCHANGED <<engine, now, job_queues_, workers_, client, history>>

\* where the client goes when the flush of queue c.worker has returned.
\* c.args names the step that follows the scheduler's process_jobs /
\* process_jobs_on inside unregister_stock and reset, which always wait.
after_flush(c, blocking) ==
    IF c.all /\ c.worker + 1 < NumWorkers THEN [c EXCEPT !.worker = @ + 1, !.pc = "flush"]
    ELSE IF blocking \/ c.args # <<>> THEN [c EXCEPT !.pc = "wait_for_completion"]
    ELSE ClientThread

FlushReturns ==
    /\ client' = after_flush(client, runtime.blocking_mode_)
    /\ runtime' = IF \/ runtime.blocking_mode_
                     \/ client.args # <<>>
                     \/ (client.all /\ client.worker + 1 < NumWorkers)
                  THEN runtime ELSE returned(runtime)

\* flush(): load write_index_; nothing staged, or swap_requested_ := true
flush_begin ==
    /\ client.pc = "flush"
    /\ IF job_queues_[client.worker].write_index_ = 0
       THEN FlushReturns /\ UNCHANGED job_queues_
       ELSE /\ job_queues_' = [job_queues_ EXCEPT ![client.worker].swap_requested_ = TRUE]
            /\ client' = [client EXCEPT !.pc = "flush_swap"]
            /\ UNCHANGED runtime
    /\ UNCHANGED <<engine, now, workers_, history>>

\* flush(): the wait loop is left and the buffer pointers are exchanged
flush_swap ==
    /\ client.pc = "flush_swap"
    /\ ~(job_queues_[client.worker].read_index_ < job_queues_[client.worker].read_size_)
    /\ job_queues_' = [job_queues_ EXCEPT
          ![client.worker].write_buffer_ = job_queues_[client.worker].read_buffer_,
          ![client.worker].read_buffer_ = job_queues_[client.worker].write_buffer_]
    /\ client' = [client EXCEPT !.pc = "flush_read_size"]
    /\ UNCHANGED <<engine, now, runtime, workers_, history>>

\* flush(): read_size_.store(write_sz)
flush_read_size ==
    /\ client.pc = "flush_read_size"
    /\ job_queues_' = [job_queues_ EXCEPT
          ![client.worker].read_size_ = job_queues_[client.worker].write_index_]
    /\ client' = [client EXCEPT !.pc = "flush_read_index"]
    /\ UNCHANGED <<engine, now, runtime, workers_, history>>

\* flush(): read_index_.store(0)
flush_read_index ==
    /\ client.pc = "flush_read_index"
    /\ job_queues_' = [job_queues_ EXCEPT ![client.worker].read_index_ = 0]
    /\ client' = [client EXCEPT !.pc = "flush_write_index"]
    /\ UNCHANGED <<engine, now, runtime, workers_, history>>

\* flush(): write_index_.store(0), swap_requested_.store(false), return
flush_write_index ==
    /\ client.pc = "flush_write_index"
    /\ job_queues_' = [job_queues_ EXCEPT ![client.worker].write_index_ = 0,
                                          ![client.worker].swap_requested_ = FALSE]
    /\ history' = [history EXCEPT
          !.flushed[client.worker] = @ + job_queues_[client.worker].write_index_]
    /\ FlushReturns
    /\ UNCHANGED <<engine, now, workers_>>

all_queues_empty == \A w \in Workers : empty(job_queues_[w])

\* wait_for_completion() / wait_for_completion(worker_id) leaves its loop
wait_for_completion ==
    /\ client.pc = "wait_for_completion"
    /\ IF client.all THEN all_queues_empty ELSE empty(job_queues_[client.worker])
    /\ client' = IF client.args = <<>> THEN ClientThread
                 ELSE [ClientThread EXCEPT !.pc = client.args[1]]
    /\ runtime' = IF client.args = <<>> THEN returned(runtime) ELSE runtime
    /\ UNCHANGED <<engine, now, job_queues_, workers_, history>>

\* the scheduler's running_ flag: cleared by the destructor before it joins
running_ == client.pc \notin {"join", "destroyed"}

\* worker_loop: running_ is set; try_pop(): idx = read_index_.load()
pop_load_index(w) ==
    /\ workers_[w].pc = "try_pop"
    /\ running_
    /\ workers_' = [workers_ EXCEPT ![w].idx = job_queues_[w].read_index_,
                                    ![w].pc = "pop_load_size"]
    /\ UNCHANGED <<engine, now, runtime, job_queues_, client, history>>

\* try_pop(): size = read_size_.load(); return false when idx >= size
pop_load_size(w) ==
    /\ workers_[w].pc = "pop_load_size"
    /\ workers_' =
          IF workers_[w].idx >= job_queues_[w].read_size_
          THEN [workers_ EXCEPT ![w].idx = 0, ![w].pc = "try_pop"]
          ELSE [workers_ EXCEPT ![w].size = job_queues_[w].read_size_, ![w].pc = "pop_move"]
    /\ UNCHANGED <<engine, now, runtime, job_queues_, client, history>>

\* try_pop(): out = std::move((*read_buffer_)[idx])
pop_move(w) ==
    /\ workers_[w].pc = "pop_move"
    /\ workers_' = [workers_ EXCEPT
          ![w].job = job_queues_[w][job_queues_[w].read_buffer_][workers_[w].idx + 1],
          ![w].pc = "pop_store_index"]
    /\ job_queues_' = [job_queues_ EXCEPT
          ![w][job_queues_[w].read_buffer_][workers_[w].idx + 1] = moved_from(@)]
    /\ UNCHANGED <<engine, now, runtime, client, history>>

\* try_pop(): read_index_.store(idx + 1); return true
pop_store_index(w) ==
    /\ workers_[w].pc = "pop_store_index"
    /\ job_queues_' = [job_queues_ EXCEPT ![w].read_index_ = workers_[w].idx + 1]
    /\ workers_' = [workers_ EXCEPT ![w].idx = 0, ![w].size = 0, ![w].pc = "execute"]
    /\ UNCHANGED <<engine, now, runtime, client, history>>

\* worker_loop: if (job.execute) job.execute() is entered
job_begin(w) ==
    /\ workers_[w].pc = "execute"
    /\ IF workers_[w].job.execute = <<>>
       THEN /\ workers_' = [workers_ EXCEPT ![w].pc = "try_pop"]
            /\ UNCHANGED history
       ELSE /\ workers_' = [workers_ EXCEPT ![w].pc = "running"]
            /\ history' = [history EXCEPT !.started[w] = Append(@, workers_[w].job.execute[1])]
    /\ UNCHANGED <<engine, now, runtime, job_queues_, client>>

\* the execute lambda of limit_order: place_order, the result cell, and the
\* ownership map
run_job(rt, e, w, args_idx, args) ==
    [rt EXCEPT !.cells[w][args_idx + 1] = <<place_result(e, args.side, args.type)>>,
               !.user_orders_[args.user_id] =
                   IF place_result(e, args.side, args.type) = NOT_FOUND THEN @
                   ELSE @ \cup {place_result(e, args.side, args.type)}]

\* the OrderJobArgs and the engine the job's lambda points to still exist
\* (unregister_stock destroys the engine, reset the engine and the arguments)
JobLive(w) ==
    /\ runtime.registered
    /\ workers_[w].job.owner_id = runtime.engine_id_
    /\ workers_[w].job.execute[1] < Len(runtime.worker_arenas_[w])

job_end(w) ==
    /\ workers_[w].pc = "running"
    /\ JobLive(w)
    /\ Len(workers_[w].job.execute) = 1
    /\ \E args \in {runtime.worker_arenas_[w][workers_[w].job.execute[1] + 1]} :
          /\ engine' \in place_outcomes(engine, args.side, args.type, args.price, args.qty, now)
          /\ runtime' = run_job(runtime, engine, w, workers_[w].job.execute[1], args)
    /\ workers_' = [workers_ EXCEPT ![w].pc = "try_pop"]
    /\ UNCHANGED <<now, job_queues_, client, history>>

(***************************************************************************)
(* engine_runtime.cpp: cancel_order and edit_order.  Their jobs carry the  *)
(* lambda they were built with next to the arena slot.                     *)
(***************************************************************************)
\* the catch block of cancel_order: false goes to the caller's cell
RejectBool ==
    /\ runtime' = [runtime EXCEPT !.rejected = <<FALSE>>]
    /\ client' = ClientThread
    /\ UNCHANGED <<engine, now, job_queues_, workers_, history>>

\* cancel_order / edit_order from the arena emplace on
SubmitCall(args, lambda) ==
    /\ runtime' = enqueue(runtime, args)
    /\ job_queues_' =
          [job_queues_ EXCEPT ![runtime.engine_id_ % NumWorkers] =
              try_push(@, Job(<<Len(runtime.worker_arenas_[runtime.worker_id_]), lambda>>,
                              runtime.engine_id_))]
    /\ client' =
          IF ~can_push(job_queues_[runtime.engine_id_ % NumWorkers])
          THEN [ClientThread EXCEPT !.pc = "submit_job"]
          ELSE IF runtime.batch_counter_ + 1 >= runtime.batch_size_
          THEN [ClientThread EXCEPT !.pc = "flush", !.worker = runtime.worker_id_]
          ELSE ClientThread
    /\ UNCHANGED <<engine, now, workers_, history>>

runtime_cancel_order_call(order_id, user_id) ==
    IF ~runtime.registered THEN RejectBool
    ELSE IF Len(runtime.worker_arenas_[runtime.worker_id_]) >= runtime.arena_capacity_per_worker
    THEN RejectBool
    ELSE SubmitCall(OrderJobArgs("BID", "LIMIT", 0, 0, order_id, user_id), "cancel_order")

runtime_cancel_order ==
    /\ client.pc = "idle"
    /\ \E order_id \in 0..MaxJobOrderId, user_id \in UserIds :
          runtime_cancel_order_call(order_id, user_id)

runtime_edit_order_call(order_id, side, price, qty) ==
    IF ~runtime.registered THEN Reject
    ELSE IF Len(runtime.worker_arenas_[runtime.worker_id_]) >= runtime.arena_capacity_per_worker
    THEN Reject
    ELSE SubmitCall(OrderJobArgs(side, "LIMIT", price, qty, order_id, 0), "edit_order")

runtime_edit_order ==
    /\ client.pc = "idle"
    /\ \E order_id \in {0}, side \in Sides, price \in {0, 1}, qty \in {0, 1} :
          runtime_edit_order_call(order_id, side, price, qty)

\* the execute lambda of cancel_order: the engine call, the result cell, and
\* the erase from the ownership set of the user the call was made for
run_cancel_job(rt, e, w, args_idx, args) ==
    [rt EXCEPT !.cells[w][args_idx + 1] = <<can_cancel(e, args.order_id)>>,
               !.user_orders_[args.user_id] =
                   IF can_cancel(e, args.order_id) THEN @ \ {args.order_id} ELSE @]

\* what edit_order returns
edit_result(e, id) == IF can_cancel(e, id) THEN id ELSE NOT_FOUND

\* the execute lambda of edit_order: the engine call and the result cell
run_edit_job(rt, e, w, args_idx, args) ==
    [rt EXCEPT !.cells[w][args_idx + 1] = <<edit_result(e, args.order_id)>>]

\* worker_loop: job.execute() of a cancel or an edit job returns
call_job_end(w) ==
    /\ workers_[w].pc = "running"
    /\ JobLive(w)
    /\ Len(workers_[w].job.execute) = 2
    /\ \E args \in {runtime.worker_arenas_[w][workers_[w].job.execute[1] + 1]} :
          IF workers_[w].job.execute[2] = "cancel_order"
          THEN /\ engine' = settle(cancel_order(engine, args.order_id))
               /\ runtime' = run_cancel_job(runtime, engine, w, workers_[w].job.execute[1], args)
          ELSE /\ engine' \in edit_outcomes(engine, args.order_id, args.side, args.price,
                                            args.qty, now)
               /\ runtime' = run_edit_job(runtime, engine, w, workers_[w].job.execute[1], args)
    /\ workers_' = [workers_ EXCEPT ![w].pc = "try_pop"]
    /\ UNCHANGED <<now, job_queues_, client, history>>

\* worker_loop: job.execute() of a job whose engine or arguments have been
\* destroyed: the lambda dereferences freed memory
job_dangling(w) ==
    /\ workers_[w].pc = "running"
    /\ ~JobLive(w)
    /\ engine' = [engine EXCEPT !.ub = TRUE]
    /\ workers_' = [workers_ EXCEPT ![w].pc = "try_pop"]
    /\ UNCHANGED <<now, runtime, job_queues_, client, history>>

(***************************************************************************)
(* engine_runtime.cpp: unregister_stock and reset.                         *)
(***************************************************************************)
\* unregister_stock up to scheduler_.process_jobs_on(worker_id_); an unknown
\* symbol returns false
unregister_stock ==
    /\ client.pc = "idle"
    /\ IF ~runtime.registered
       THEN UNCHANGED <<client>>
       ELSE client' = [ClientThread EXCEPT !.pc = "flush", !.worker = runtime.worker_id_,
                                           !.args = <<"unregister_erase">>]
    /\ UNCHANGED <<engine, now, runtime, job_queues_, workers_, history>>

\* unregister_stock after process_jobs_on: the stock and its ownership
\* entries are erased, true is returned
unregister_erase ==
    /\ client.pc = "unregister_erase"
    /\ runtime' = [runtime EXCEPT !.registered = FALSE,
                                  !.user_orders_ = [u \in UserIds |-> {}]]
    /\ client' = ClientThread
    /\ UNCHANGED <<engine, now, job_queues_, workers_, history>>

\* reset up to scheduler_.process_jobs()
reset ==
    /\ client.pc = "idle"
    /\ client' = [ClientThread EXCEPT !.pc = "flush", !.all = TRUE, !.args = <<"reset_clear">>]
    /\ UNCHANGED <<engine, now, runtime, job_queues_, workers_, history>>

\* reset after process_jobs: stocks, ownership map, engine id counter and
\* arenas are cleared; the bookkeeping of published jobs restarts with them
reset_clear ==
    /\ client.pc = "reset_clear"
    /\ runtime' = [runtime EXCEPT !.registered = FALSE,
                                  !.user_orders_ = [u \in UserIds |-> {}],
                                  !.next_engine_id_ = 0,
                                  !.worker_arenas_ = [w \in Workers |-> <<>>],
                                  !.cells = [w \in Workers |-> <<>>]]
    /\ history' = [history EXCEPT !.flushed = [w \in Workers |-> 0],
                                  !.started = [w \in Workers |-> <<>>]]
    /\ client' = ClientThread
    /\ UNCHANGED <<engine, now, job_queues_, workers_>>

NextSched ==
    \/ register_stock
    \/ limit_order
    \/ validate
    \/ execute_batch
    \/ set_blocking_mode
    \/ flush_begin
    \/ flush_swap
    \/ flush_read_size
    \/ flush_read_index
    \/ flush_write_index
    \/ wait_for_completion
    \/ \E w \in Workers : pop_load_index(w)
    \/ \E w \in Workers : pop_load_size(w)
    \/ \E w \in Workers : pop_move(w)
    \/ \E w \in Workers : pop_store_index(w)
    \/ \E w \in Workers : job_begin(w)
    \/ \E w \in Workers : job_end(w)

SpecSched == Init /\ [][NextSched]_vars

(***************************************************************************)
(* The runtime serving edit requests on the one registered stock.  Only    *)
(* the worker that owns the stock's engine is followed: the other workers  *)
(* poll queues that stay empty.                                            *)
(***************************************************************************)
NextEdits ==
    \/ register_stock
    \/ runtime_edit_order
    \/ execute_batch
    \/ flush_begin
    \/ flush_swap
    \/ flush_read_size
    \/ flush_read_index
    \/ flush_write_index
    \/ wait_for_completion
    \/ pop_load_index(runtime.worker_id_)
    \/ pop_load_size(runtime.worker_id_)
    \/ pop_move(runtime.worker_id_)
    \/ pop_store_index(runtime.worker_id_)
    \/ job_begin(runtime.worker_id_)
    \/ call_job_end(runtime.worker_id_)

SpecEdits == Init /\ [][NextEdits]_vars

(***************************************************************************)
(* The runtime serving limit and cancel requests of its users.             *)
(***************************************************************************)
NextOwners ==
    \/ register_stock
    \/ limit_order
    \/ validate
    \/ runtime_cancel_order
    \/ execute_batch
    \/ flush_begin
    \/ flush_swap
    \/ flush_read_size
    \/ flush_read_index
    \/ flush_write_index
    \/ wait_for_completion
    \/ pop_load_index(runtime.worker_id_)
    \/ pop_load_size(runtime.worker_id_)
    \/ pop_move(runtime.worker_id_)
    \/ pop_store_index(runtime.worker_id_)
    \/ job_begin(runtime.worker_id_)
    \/ job_end(runtime.worker_id_)
    \/ call_job_end(runtime.worker_id_)

SpecOwners == Init /\ [][NextOwners]_vars

(***************************************************************************)
(* job_scheduler.cpp: ~JobScheduler.                                       *)
(***************************************************************************)
\* the destructor up to execute_batch(); wait_for_completion()
destroy ==
    /\ client.pc = "idle"
    /\ client' = [ClientThread EXCEPT !.pc = "flush", !.all = TRUE, !.args = <<"stop_running">>]
    /\ UNCHANGED <<engine, now, runtime, job_queues_, workers_, history>>

\* running_.store(false)
stop_running ==
    /\ client.pc = "stop_running"
    /\ client' = [ClientThread EXCEPT !.pc = "join"]
    /\ UNCHANGED <<engine, now, runtime, job_queues_, workers_, history>>

\* worker_loop: while (running_.load()) fails, the thread ends
worker_exit(w) ==
    /\ workers_[w].pc = "try_pop"
    /\ ~running_
    /\ workers_' = [workers_ EXCEPT ![w].pc = "exited"]
    /\ UNCHANGED <<engine, now, runtime, job_queues_, client, history>>

\* worker.join() has returned for every worker: the destructor returns
join ==
    /\ client.pc = "join"
    /\ \A w \in Workers : workers_[w].pc = "exited"
    /\ client' = [ClientThread EXCEPT !.pc = "destroyed"]
    /\ UNCHANGED <<engine, now, runtime, job_queues_, workers_, history>>

(***************************************************************************)
(* The runtime serving limit orders until its scheduler is destroyed.      *)
(***************************************************************************)
NextDestroy ==
    \/ register_stock
    \/ limit_order
    \/ validate
    \/ execute_batch
    \/ destroy
    \/ stop_running
    \/ join
    \/ flush_begin
    \/ flush_swap
    \/ flush_read_size
    \/ flush_read_index
    \/ flush_write_index
    \/ wait_for_completion
    \/ pop_load_index(runtime.worker_id_)
    \/ pop_load_size(runtime.worker_id_)
    \/ pop_move(runtime.worker_id_)
    \/ pop_store_index(runtime.worker_id_)
    \/ job_begin(runtime.worker_id_)
    \/ job_end(runtime.worker_id_)
    \/ \E w \in Workers : worker_exit(w)

SpecDestroy == Init /\ [][NextDestroy]_vars

(***************************************************************************)
(* The runtime constructed with any batch_size from 0 (get_instance's      *)
(* default) up, serving limit orders.  submit_job keeps trying to push the *)
(* job and yields in between.  The worker thread and the client inside a   *)
(* call are scheduled fairly; the client is free to make no further call.  *)
(***************************************************************************)
\* EngineRuntime(num_threads, default_capacity, batch_size, ...): the
\* scheduler's queues get batch_size slots, the arenas batch_size_
SubmitInit ==
    /\ EngineInit
    /\ \E batch_size \in 0..BatchSize :
          /\ runtime = EngineRuntime(IF batch_size > 0 THEN batch_size ELSE DEFAULT_CAPACITY,
                                     TRUE)
          /\ job_queues_ = [w \in Workers |-> DoubleBuffer(batch_size)]
    /\ workers_ = [w \in Workers |-> WorkerThread]
    /\ client = ClientThread
    /\ history = [flushed |-> [w \in Workers |-> 0], started |-> [w \in Workers |-> <<>>],
                  call |-> NoCall]

\* submit_job: while (!buffer.try_push(std::move(job))), one more attempt
\* for the job built over the last arena slot
submit_job ==
    /\ client.pc = "submit_job"
    /\ IF can_push(job_queues_[runtime.engine_id_ % NumWorkers])
       THEN /\ job_queues_' =
                  [job_queues_ EXCEPT ![runtime.engine_id_ % NumWorkers] =
                      try_push(@, Job(<<Len(runtime.worker_arenas_[runtime.worker_id_]) - 1>>,
                                      runtime.engine_id_))]
            /\ client' = IF runtime.batch_counter_ >= runtime.batch_size_
                         THEN [ClientThread EXCEPT !.pc = "flush",
                                                   !.worker = runtime.worker_id_]
                         ELSE ClientThread
       ELSE /\ client' = [client EXCEPT !.pc = "yield"]
            /\ UNCHANGED job_queues_
    /\ UNCHANGED <<engine, now, runtime, workers_, history>>

\* submit_job: std::this_thread::yield() returns
submit_yield ==
    /\ client.pc = "yield"
    /\ client' = [client EXCEPT !.pc = "submit_job"]
    /\ UNCHANGED <<engine, now, runtime, job_queues_, workers_, history>>

\* the steps of the client inside a call
ClientInCall ==
    \/ validate
    \/ submit_job
    \/ submit_yield
    \/ flush_begin
    \/ flush_swap
    \/ flush_read_size
    \/ flush_read_index
    \/ flush_write_index
    \/ wait_for_completion

\* the steps of the worker thread that owns the stock's engine
worker_loop ==
    \/ pop_load_index(runtime.worker_id_)
    \/ pop_load_size(runtime.worker_id_)
    \/ pop_move(runtime.worker_id_)
    \/ pop_store_index(runtime.worker_id_)
    \/ job_begin(runtime.worker_id_)
    \/ job_end(runtime.worker_id_)

NextSubmit ==
    \/ register_stock
    \/ limit_order
    \/ validate
    \/ submit_job
    \/ submit_yield
    \/ execute_batch
    \/ flush_begin
    \/ flush_swap
    \/ flush_read_size
    \/ flush_read_index
    \/ flush_write_index
    \/ wait_for_completion
    \/ pop_load_index(runtime.worker_id_)
    \/ pop_load_size(runtime.worker_id_)
    \/ pop_move(runtime.worker_id_)
    \/ pop_store_index(runtime.worker_id_)
    \/ job_begin(runtime.worker_id_)
    \/ job_end(runtime.worker_id_)

SpecSubmit == SubmitInit /\ [][NextSubmit]_vars /\ WF_vars(ClientInCall) /\ WF_vars(worker_loop)

(***************************************************************************)
(* The runtime registering and unregistering a stock while limit orders    *)
(* are submitted.  Only the worker that owns the stock's engine is         *)
(* followed: the other workers poll queues that stay empty.                *)
(***************************************************************************)
NextUnregister ==
    \/ register_stock
    \/ limit_order
    \/ validate
    \/ unregister_stock
    \/ unregister_erase
    \/ flush_begin
    \/ flush_swap
    \/ flush_read_size
    \/ flush_read_index
    \/ flush_write_index
    \/ wait_for_completion
    \/ pop_load_index(runtime.worker_id_)
    \/ pop_load_size(runtime.worker_id_)
    \/ pop_move(runtime.worker_id_)
    \/ pop_store_index(runtime.worker_id_)
    \/ job_begin(runtime.worker_id_)
    \/ job_end(runtime.worker_id_)
    \/ job_dangling(runtime.worker_id_)

SpecUnregister == Init /\ [][NextUnregister]_vars

(***************************************************************************)
(* The runtime being reset and reused; the engine registered after a reset *)
(* has id 0 again, so the same worker serves it.                           *)
(***************************************************************************)
NextReset ==
    \/ register_stock
    \/ limit_order
    \/ validate
    \/ reset
    \/ reset_clear
    \/ flush_begin
    \/ flush_swap
    \/ flush_read_size
    \/ flush_read_index
    \/ flush_write_index
    \/ wait_for_completion
    \/ pop_load_index(runtime.worker_id_)
    \/ pop_load_size(runtime.worker_id_)
    \/ pop_move(runtime.worker_id_)
    \/ pop_store_index(runtime.worker_id_)
    \/ job_begin(runtime.worker_id_)
    \/ job_end(runtime.worker_id_)
    \/ job_dangling(runtime.worker_id_)

SpecReset == Init /\ [][NextReset]_vars

(***************************************************************************)
(* Observations of an engine used by the properties below.                 *)
(***************************************************************************)
Ids(e) == 0..(e.next_order_id_ - 1)
OpenIds(e) == {id \in Ids(e) : Order(e, id).status_ = "OPEN"}
\* the ids queued in the level keyed p of one side
IdsAt(e, side, p) ==
    {LevelsOf(e, side)[p][i][2] : i \in 1..Len(LevelsOf(e, side)[p])}
\* every <<side, key, position>> at which id is queued
Places(e, id) ==
    {<<side, p, i>> \in Sides \X (Prices \cup {MARKET_PRICE_ARG}) \X (1..MaxOrders) :
        /\ p \in DOMAIN LevelsOf(e, side)
        /\ i <= Len(LevelsOf(e, side)[p])
        /\ LevelsOf(e, side)[p][i][2] = id}
RestingPrices(e, side) ==
    {Order(e, id).price_ : id \in {i \in OpenIds(e) : Order(e, i).side_ = side}}
SetMax(S) == CHOOSE x \in S : \A y \in S : y <= x
SetMin(S) == CHOOSE x \in S : \A y \in S : x <= y
Pos(seq, x) == CHOOSE i \in 1..Len(seq) : seq[i] = x
QueuedBefore(e, a, b) ==
    /\ \E i \in 1..Len(e.arrivals) : e.arrivals[i] = a
    /\ \E i \in 1..Len(e.arrivals) : e.arrivals[i] = b
    /\ Pos(e.arrivals, a) < Pos(e.arrivals, b)

\* Observations of the scheduler.  A job is named by the slot of its
\* worker's argument arena; slots are handed out in submission order.
JobsOf(w) == 0..(Len(runtime.worker_arenas_[w]) - 1)
\* the jobs of worker w published by a flush that has returned
Flushed(w) == 0..(history.flushed[w] - 1)
Finished(w, j) == runtime.cells[w][j + 1] # <<>>
Times(seq, x) == Cardinality({i \in 1..Len(seq) : seq[i] = x})
is_worker_complete(w) == empty(job_queues_[w])
\* worker w has nothing left to pop and is executing nothing
Drained(w) ==
    /\ workers_[w].pc = "try_pop"
    /\ job_queues_[w].read_index_ >= job_queues_[w].read_size_

(***************************************************************************)
(* C1. Price-time priority: of two orders that are OPEN at the same price  *)
(* on the same side, the one queued first is filled completely before the  *)
(* other receives any fill.  Stated on every step: if a resting order b is *)
(* filled (its quantity drops in a step that trades) while a was queued    *)
(* before it at the same price and side, then a is FILLED after the step.  *)
(* Only steps of executions without undefined behaviour are constrained.   *)
(***************************************************************************)
C1_PriceTimePriority ==
    [][\A a, b \in OpenIds(engine) :
          ( /\ a # b
            /\ Order(engine, a).side_ = Order(engine, b).side_
            /\ Order(engine, a).price_ = Order(engine, b).price_
            /\ QueuedBefore(engine, a, b)
            /\ a # engine'.recent_order_id_
            /\ b # engine'.recent_order_id_
            /\ engine'.num_trades_ > engine.num_trades_
            /\ Order(engine', b).qty_ < Order(engine, b).qty_
            /\ Defined(engine') )
          => Order(engine', a).status_ = "FILLED"]_vars

(***************************************************************************)
(* C2. get_best_bid is the highest price at which a BID order rests and    *)
(* get_best_ask the lowest price at which an ASK order rests, the sentinel *)
(* -1 exactly when the side has no resting order (in every state reached   *)
(* without undefined behaviour).                                           *)
(***************************************************************************)
C2_BestPrices ==
    Defined(engine) =>
        /\ get_best_bid(engine) =
              IF RestingPrices(engine, "BID") = {} THEN NO_PRICE
              ELSE SetMax(RestingPrices(engine, "BID"))
        /\ get_best_ask(engine) =
              IF RestingPrices(engine, "ASK") = {} THEN NO_PRICE
              ELSE SetMin(RestingPrices(engine, "ASK"))

(***************************************************************************)
(* C3. Once the client is back from a runtime call (in particular from a   *)
(* blocking execute_batch / process_jobs / process_jobs_on) and a worker's *)
(* queue reports complete (is_worker_complete, hence is_engine_completed   *)
(* and is_complete), every job of that worker that was flushed has         *)
(* finished executing and its result cell has been written.                *)
(***************************************************************************)
C3_CompleteMeansFinished ==
    \A w \in Workers :
        (client.pc = "idle" /\ is_worker_complete(w))
        => \A j \in Flushed(w) : Finished(w, j)

(***************************************************************************)
(* C4. Every submitted job is executed exactly once: no job is ever        *)
(* started twice, and once a worker has drained its queue every job that   *)
(* was flushed to it has been started.                                     *)
(***************************************************************************)
C4_ExecutedExactlyOnce ==
    \A w \in Workers :
        /\ \A j \in JobsOf(w) : Times(history.started[w], j) <= 1
        /\ Drained(w) => \A j \in Flushed(w) : Times(history.started[w], j) = 1

(***************************************************************************)
(* C5. The jobs of one worker (hence the operations on one symbol) are     *)
(* executed in the order in which they were submitted, within a batch and  *)
(* across batches.                                                         *)
(***************************************************************************)
C5_SubmissionOrder ==
    \A w \in Workers :
        \A i, j \in 1..Len(history.started[w]) :
            i < j => history.started[w][i] < history.started[w][j]

(***************************************************************************)
(* C6. Every OPEN order of the order table is queued in exactly one price  *)
(* level, on its own side, and that level's key is the order's stored      *)
(* price (in every state reached without undefined behaviour).             *)
(***************************************************************************)
C6_OpenOrderInItsLevel ==
    Defined(engine) =>
        \A id \in OpenIds(engine) :
            \E i \in 1..MaxOrders :
                Places(engine, id) =
                    {<<Order(engine, id).side_, Order(engine, id).price_, i>>}

(***************************************************************************)
(* C7. Every order id queued in a price level is an existing order whose   *)
(* status is OPEN (in every state reached without undefined behaviour).    *)
(***************************************************************************)
C7_LevelsHoldOpenOrders ==
    Defined(engine) =>
        \A side \in Sides : \A p \in DOMAIN LevelsOf(engine, side) :
            \A id \in IdsAt(engine, side, p) :
                HasOrder(engine, id) /\ Order(engine, id).status_ = "OPEN"

(***************************************************************************)
(* C8. On each side the prices in the heap, the keys of the price-to-level *)
(* map and the prices with at least one queued order are the same set, and *)
(* no price is in the heap twice (in every state reached without undefined *)
(* behaviour).                                                             *)
(***************************************************************************)
C8_BookAndLevelsAgree ==
    Defined(engine) => \A side \in Sides :
        LET book == BookOf(engine, side)
            levels == LevelsOf(engine, side)
            inHeap == {book[i] : i \in 1..Len(book)}
        IN  /\ inHeap = DOMAIN levels
            /\ \A p \in DOMAIN levels : levels[p] # <<>>
            /\ Cardinality(inHeap) = Len(book)

(***************************************************************************)
(* C9. At most one thread is inside the engine at any moment: a job on the *)
(* engine runs only on worker engine_id mod W, and the client thread does  *)
(* not read the engine (the share check of an ASK) while a worker is       *)
(* executing a job on it.                                                  *)
(***************************************************************************)
C9_OneThreadPerEngine ==
    /\ \A w \in Running :
          /\ w = workers_[w].job.owner_id % NumWorkers
          /\ w = runtime.worker_id_
    /\ Cardinality(Running) <= 1
    /\ ~(Running # {} /\ client.pc = "has_sufficient_shares")

(***************************************************************************)
(* C10. After every trade last_trade_price (get_market_price) is the       *)
(* stored price of the resting, non-incoming order of that trade (in every *)
(* state reached without undefined behaviour).                             *)
(***************************************************************************)
C10_TradeAtPassivePrice ==
    (Defined(engine) /\ engine.num_trades_ > 0)
        => get_market_price(engine) = engine.passive_price_

\* Observations of one recorded engine call (SpecCalls steps).
\* The call of the step is a place_order of a LIMIT order on side whose price
\* crosses the best opposite price the engine reports on arrival.
CrossingLimit(side) ==
    /\ history'.call.op = "place_order"
    /\ history'.call.type = "LIMIT"
    /\ history'.call.side = side
    /\ IF side = "BID"
       THEN Len(engine.ask_book_) > 0 /\ history'.call.price > get_best_ask(engine)
       ELSE Len(engine.bid_book_) > 0 /\ history'.call.price < get_best_bid(engine)
\* the head order of the best level of a side (the side's heap and its level
\* map agree on that level and it is not empty)
HasBestHead(e, side) ==
    /\ Len(BookOf(e, side)) > 0
    /\ BookOf(e, side)[1] \in DOMAIN LevelsOf(e, side)
    /\ LevelsOf(e, side)[BookOf(e, side)[1]] # <<>>
BestHead(e, side) == LevelsOf(e, side)[BookOf(e, side)[1]][1][2]
Opposite(side) == IF side = "BID" THEN "ASK" ELSE "BID"
\* order id took part in a trade of the step
TradedIn(id) ==
    /\ engine'.num_trades_ > engine.num_trades_
    /\ \/ Order(engine', id).qty_ < Order(engine, id).qty_
       \/ Order(engine', id).status_ = "FILLED"

(***************************************************************************)
(* C11. A LIMIT BID placed with price > best_ask is stored with price      *)
(* best_ask (a LIMIT ASK with price < best_bid with price best_bid), and,  *)
(* auto_match being on, the call trades against the head order of the best *)
(* opposite level (in every call of an execution without undefined         *)
(* behaviour).                                                             *)
(***************************************************************************)
C11_CrossingLimitAdjustedAndMatched ==
    [][\A side \in Sides :
          (CrossingLimit(side) /\ Defined(engine'))
          => /\ Order(engine', history'.call.id).price_ =
                   BookOf(engine, Opposite(side))[1]
             /\ engine.auto_match_ =>
                   /\ HasBestHead(engine, Opposite(side))
                   /\ TradedIn(BestHead(engine, Opposite(side)))]_vars

\* The step is a successful place_order or edit_order: its order (the
\* incoming order of every match step of the call) entered a book.
Incoming ==
    /\ history'.call.op \in {"place_order", "edit_order"}
    /\ engine' # engine
    /\ HasOrder(engine', history'.call.id)
    /\ Order(engine', history'.call.id).status_ # "REJECTED"
\* the orders of the pre-state other than the call's own
Others == Ids(engine) \ {history'.call.id}
\* what one match step leaves of an order that held qty and gave up d
FilledBy(id, qty, d) ==
    /\ Order(engine', id).qty_ = qty - d
    /\ Order(engine', id).id_ = id
    /\ (qty - d = 0) => Order(engine', id).status_ = "FILLED"
KeepsStatus(id) ==
    Order(engine', id).qty_ > 0 => Order(engine', id).status_ = Order(engine, id).status_
Untouched(ids) == \A id \in ids : Order(engine', id) = Order(engine, id)
\* the call made no match step / one step against p / two steps, against p1
\* and then p2
NoStep(inc, q0) ==
    /\ Order(engine', inc).qty_ = q0
    /\ Order(engine', inc).status_ = "OPEN"
    /\ Untouched(Others)
OneStep(inc, q0, p) ==
    /\ FilledBy(p, Order(engine, p).qty_, Min(q0, Order(engine, p).qty_))
    /\ KeepsStatus(p)
    /\ FilledBy(inc, q0, Min(q0, Order(engine, p).qty_))
    /\ Order(engine', inc).qty_ > 0 => Order(engine', inc).status_ = "OPEN"
    /\ Untouched(Others \ {p})
TwoSteps(inc, q0, p1, p2) ==
    /\ FilledBy(p1, Order(engine, p1).qty_, Min(q0, Order(engine, p1).qty_))
    /\ KeepsStatus(p1)
    /\ FilledBy(p2, Order(engine, p2).qty_,
                Min(q0 - Min(q0, Order(engine, p1).qty_), Order(engine, p2).qty_))
    /\ KeepsStatus(p2)
    /\ FilledBy(inc, q0,
                Min(q0, Order(engine, p1).qty_)
                + Min(q0 - Min(q0, Order(engine, p1).qty_), Order(engine, p2).qty_))
    /\ Order(engine', inc).qty_ > 0 => Order(engine', inc).status_ = "OPEN"
    /\ Untouched(Others \ {p1, p2})
StepsOf(inc, q0, k) ==
    CASE k = 0 -> NoStep(inc, q0)
      [] k = 1 -> \E p \in Others : OneStep(inc, q0, p)
      [] k = 2 -> \E p1, p2 \in Others : p1 # p2 /\ TwoSteps(inc, q0, p1, p2)
      [] OTHER -> FALSE

(***************************************************************************)
(* C12. Each match step trades exactly min(bid.qty, ask.qty): both orders  *)
(* lose that quantity, an order that reaches 0 becomes FILLED, the other   *)
(* keeps its status (OPEN) and its id with the reduced quantity, no other  *)
(* order changes, and the trade count rises by one per step and never      *)
(* falls.  Stated on every call: the trade count never falls, and a call   *)
(* that raises it by k has made exactly k such steps between its incoming  *)
(* order and k resting orders.                                             *)
(***************************************************************************)
C12_MatchStepTradesMin ==
    [][/\ engine'.num_trades_ >= engine.num_trades_
       /\ (Incoming /\ Defined(engine'))
          => StepsOf(history'.call.id, history'.call.qty,
                     engine'.num_trades_ - engine.num_trades_)
       /\ ~Incoming => (engine'.num_trades_ = engine.num_trades_ /\ Untouched(Others))]_vars

\* the books are not crossed: a side is empty or best_bid < best_ask
Uncrossed(e) ==
    \/ Len(e.bid_book_) = 0
    \/ Len(e.ask_book_) = 0
    \/ get_best_bid(e) < get_best_ask(e)

(***************************************************************************)
(* C13. After every operation best_bid < best_ask (over non-empty sides),  *)
(* or both sides are empty, or the order the operation placed has been     *)
(* matched, fully or partly, by that operation (in every call of an        *)
(* execution without undefined behaviour).                                 *)
(***************************************************************************)
C13_BooksNotCrossed ==
    [][Defined(engine')
       => \/ Uncrossed(engine')
          \/ (Len(engine'.bid_book_) = 0 /\ Len(engine'.ask_book_) = 0)
          \/ (Incoming /\ engine'.num_trades_ > engine.num_trades_)]_vars

\* Sum of the remaining quantities of a set of orders.
RECURSIVE TotalQty(_, _)
TotalQty(e, ids) ==
    IF ids = {} THEN 0
    ELSE Order(e, CHOOSE x \in ids : TRUE).qty_
         + TotalQty(e, ids \ {CHOOSE x \in ids : TRUE})
\* the quantity queued in the levels of one side keyed by keys
RECURSIVE QueuedQty(_, _, _)
QueuedQty(e, side, keys) ==
    IF keys = {} THEN 0
    ELSE level_total(e, LevelsOf(e, side)[CHOOSE k \in keys : TRUE])
         + QueuedQty(e, side, keys \ {CHOOSE k \in keys : TRUE})
OpenAt(e, side, p) ==
    {id \in OpenIds(e) : Order(e, id).side_ = side /\ Order(e, id).price_ = p}
BestOf(side, prices) == IF side = "BID" THEN SetMax(prices) ELSE SetMin(prices)
\* the rows a depth query owes: one per price with OPEN orders, best first
RECURSIVE DepthOwed(_, _, _)
DepthOwed(e, side, prices) ==
    IF prices = {} THEN <<>>
    ELSE <<<<BestOf(side, prices), TotalQty(e, OpenAt(e, side, BestOf(side, prices)))>>>>
         \o DepthOwed(e, side, prices \ {BestOf(side, prices)})

(***************************************************************************)
(* C14. After any sequence of places and cancels the remaining quantity of *)
(* the OPEN orders equals the quantity queued in the price levels, and     *)
(* get_market_depth reports, best price first, for each price the sum of   *)
(* the quantities of the OPEN orders at it (in every state reached without *)
(* undefined behaviour; get_market_depth is a const function of the        *)
(* engine, so it changes no state).                                        *)
(***************************************************************************)
C14_DepthIsOpenQuantity ==
    (Defined(engine) /\ engine.edits = 0)
    => /\ TotalQty(engine, OpenIds(engine))
            = QueuedQty(engine, "BID", DOMAIN engine.bid_levels_)
              + QueuedQty(engine, "ASK", DOMAIN engine.ask_levels_)
       /\ \A side \in Sides :
             get_market_depth(engine, side, DEFAULT_DEPTH)
                = [threw |-> FALSE,
                   depth_result |-> DepthOwed(engine, side, RestingPrices(engine, side))]

\* the states of an order in which the spec has cancel_order refuse
CancelRefused(e, id) ==
    \/ ~HasOrder(e, id)
    \/ Order(e, id).status_ # "OPEN"
    \/ Order(e, id).type_ # "LIMIT"
\* this step is a call of cancel_order that returns false and changes nothing
CancelFails ==
    /\ ~can_cancel(engine, history'.call.id)
    /\ engine' = engine

(***************************************************************************)
(* C15. cancel_order(id) on an id that does not exist, or whose order is   *)
(* not OPEN or not a LIMIT order, returns false and leaves the engine as   *)
(* it was; and so does the second of two successive cancel_order(id).      *)
(***************************************************************************)
C15_RefusedCancelChangesNothing ==
    [][history'.call.op = "cancel_order"
       => /\ CancelRefused(engine, history'.call.id) => CancelFails
          /\ (history.call.op = "cancel_order" /\ history.call.id = history'.call.id)
                => CancelFails]_vars
\* a cancel_order has just been refused on an order that had been filled
C15_CancelOfFilledReached ==
    /\ Defined(engine)
    /\ history.call.op = "cancel_order"
    /\ HasOrder(engine, history.call.id)
    /\ Order(engine, history.call.id).status_ = "FILLED"

\* this step is a place_order of a LIMIT order that made no trade
PlacedWithoutTrade ==
    /\ history'.call.op = "place_order"
    /\ history'.call.type = "LIMIT"
    /\ engine' # engine
    /\ Defined(engine')
    /\ engine'.num_trades_ = engine.num_trades_
\* engine c has the books, the level maps and the orders of engine e
SameBookState(c, e) ==
    /\ c.bid_book_ = e.bid_book_
    /\ c.ask_book_ = e.ask_book_
    /\ c.bid_levels_ = e.bid_levels_
    /\ c.ask_levels_ = e.ask_levels_
    /\ \A id \in Ids(e) : Order(c, id) = Order(e, id)

(***************************************************************************)
(* C16. A LIMIT order placed without trading can be cancelled, and the     *)
(* cancel gives back the books, the level maps and the other orders of     *)
(* before the placement: only the id counter and the order's own record,   *)
(* CANCELLED, differ.                                                      *)
(***************************************************************************)
C16_PlaceThenCancelRestores ==
    [][PlacedWithoutTrade
       => /\ can_cancel(engine', history'.call.id)
          /\ ~cancel_order(engine', history'.call.id).oob
          /\ SameBookState(cancel_order(engine', history'.call.id), engine)
          /\ Order(cancel_order(engine', history'.call.id), history'.call.id).status_
                = "CANCELLED"]_vars

\* this step is a place_order of a MARKET order that found the opposite
\* book empty
MarketWithoutLiquidity ==
    /\ history'.call.op = "place_order"
    /\ history'.call.type = "MARKET"
    /\ Len(BookOf(engine, Opposite(history'.call.side))) = 0

(***************************************************************************)
(* C17. A MARKET order placed while the opposite book is empty is recorded *)
(* REJECTED, place_order returns -1, and neither book nor any price level  *)
(* changes.                                                                *)
(***************************************************************************)
C17_MarketWithoutLiquidityRejected ==
    [][MarketWithoutLiquidity
       => /\ place_result(engine, history'.call.side, "MARKET") = NOT_FOUND
          /\ engine'.next_order_id_ = engine.next_order_id_ + 1
          /\ Order(engine', history'.call.id).status_ = "REJECTED"
          /\ SameBookState(engine', engine)]_vars
\* a MARKET order has just been rejected while its own side had orders
C17_MarketRejectedReached ==
    /\ Defined(engine)
    /\ history.call.op = "place_order"
    /\ history.call.type = "MARKET"
    /\ HasOrder(engine, history.call.id)
    /\ Order(engine, history.call.id).status_ = "REJECTED"
    /\ Len(BookOf(engine, history.call.side)) > 0

\* Order ids are handed out in placement order, so an order m that is
\* queued behind a younger order a has been re-queued by edit_order while a
\* was resting.
RequeuedBehind(e, m, a) == a > m /\ QueuedBefore(e, a, m)

(***************************************************************************)
(* C18. A modified order keeps its id and goes to the back of the queue at *)
(* its new price.  Stated on every step: every order keeps its id, and if  *)
(* a modified order m receives a fill while an order a, that was resting   *)
(* at m's side and price when edit_order re-queued m, is still OPEN, then  *)
(* a is FILLED after the step.  Only steps of executions without undefined *)
(* behaviour are constrained.                                              *)
(***************************************************************************)
C18_ModifiedOrderGoesToBack ==
    [][Defined(engine')
       => /\ \A id \in Ids(engine) : Order(engine', id).id_ = id
          /\ \A a, m \in OpenIds(engine) :
                ( /\ RequeuedBehind(engine, m, a)
                  /\ Order(engine, a).side_ = Order(engine, m).side_
                  /\ Order(engine, a).price_ = Order(engine, m).price_
                  /\ engine'.num_trades_ > engine.num_trades_
                  /\ Order(engine', m).qty_ < Order(engine, m).qty_ )
                => Order(engine', a).status_ = "FILLED"]_vars

\* place_order either rejects an order or queues it in a level: the orders
\* that have entered a book are those whose status is not REJECTED
EnteredBook(e, id) == Order(e, id).status_ # "REJECTED"

ArenaFull == Len(runtime.worker_arenas_[runtime.worker_id_]) >= runtime.arena_capacity_per_worker
\* limit_order(side, price, qty, user_id) is turned down before the share
\* check reads the engine
RejectedOnEntry(side, price, qty, user_id) ==
    \/ ~runtime.registered
    \/ price <= 0
    \/ qty <= 0
    \/ side = "ASK" /\ runtime.user_orders_[user_id] = {}
    \/ side = "BID" /\ ArenaFull
\* the share check, run while no worker is inside the engine, turns the
\* request down, or the arena is full after it
RejectedAfterShareCheck ==
    \/ ArenaFull
    \/ /\ Running = {}
       /\ ~has_sufficient_shares(runtime, engine, client.args.user_id, client.args.qty)
\* -1 is in the caller's cell, the call has returned, and no job, no arena
\* slot and no tick of the batch counter came of it
NothingEnqueued ==
    /\ runtime'.rejected = <<NOT_FOUND>>
    /\ client'.pc = "idle"
    /\ job_queues_' = job_queues_
    /\ runtime'.worker_arenas_ = runtime.worker_arenas_
    /\ runtime'.cells = runtime.cells
    /\ runtime'.batch_counter_ = runtime.batch_counter_

C21_EditValidatesPriceAndQty ==
    [][/\ \A side \in Sides, price \in {0, 1}, qty \in {0, 1} :
             ( /\ client.pc = "idle"
               /\ price <= 0 \/ qty <= 0
               /\ runtime_edit_order_call(0, side, price, qty) )
             => NothingEnqueued
       /\ Defined(engine')
             => \A id \in OpenIds(engine') :
                   Order(engine', id).price_ > 0 /\ Order(engine', id).qty_ > 0]_vars

\* occupied slots of worker w's argument arena: free() is never called, so
\* every slot emplaced is occupied
Occupied(w) == Len(runtime.worker_arenas_[w])
\* the jobs submitted to worker w whose execution has not finished
Unfinished(w) == {j \in JobsOf(w) : ~Finished(w, j)}

(***************************************************************************)
(* C22. Whenever a worker is between jobs, the occupied slots of its       *)
(* argument arena are as many as its submitted-but-unfinished jobs: the    *)
(* slot of a job that has executed is back in the arena, so an arena is    *)
(* full only while capacity many jobs are unfinished.                      *)
(***************************************************************************)
C22_ArenaSlotsAreUnfinishedJobs ==
    \A w \in Workers :
        workers_[w].pc \notin {"execute", "running"}
        => Occupied(w) = Cardinality(Unfinished(w))

\* Observations of the runtime's jobs: the argument slot j of worker w keeps
\* the arguments of the request, its cell the result.  A cancel request is
\* the one enqueued with price 0 and quantity 0.
ArgsOf(w, j) == runtime.worker_arenas_[w][j + 1]
IsCancelJob(w, j) == ArgsOf(w, j).price = 0 /\ ArgsOf(w, j).qty = 0
\* the ids of the orders user u placed successfully: the IPO order of the
\* IPO holder and the results of u's finished limit_order jobs
PlacedBy(u) ==
    (IF u = IPO_HOLDER /\ runtime.registered THEN {0} ELSE {})
    \cup {runtime.cells[w][j + 1][1] :
            <<w, j>> \in {x \in Workers \X (0..(BatchSize - 1)) :
                            /\ x[2] \in JobsOf(x[1])
                            /\ Finished(x[1], x[2])
                            /\ ~IsCancelJob(x[1], x[2])
                            /\ ArgsOf(x[1], x[2]).user_id = u
                            /\ runtime.cells[x[1]][x[2] + 1][1] # NOT_FOUND}}
\* the ids whose cancel has succeeded
CancelSucceeded ==
    {ArgsOf(x[1], x[2]).order_id :
        x \in {y \in Workers \X (0..(BatchSize - 1)) :
                 /\ y[2] \in JobsOf(y[1])
                 /\ Finished(y[1], y[2])
                 /\ IsCancelJob(y[1], y[2])
                 /\ runtime.cells[y[1]][y[2] + 1][1] = TRUE}}
\* no request is in progress, queued or executing
Quiescent ==
    /\ client.pc = "idle"
    /\ \A w \in Workers :
          Unfinished(w) = {} /\ workers_[w].pc \notin {"execute", "running"}

(***************************************************************************)
(* C23. Once the queues have drained, the ownership set of every user is   *)
(* the set of the order ids that user placed successfully and whose cancel *)
(* has not succeeded (in executions without undefined behaviour).          *)
(***************************************************************************)
C23_OwnershipIsPlacedNotCancelled ==
    (Quiescent /\ Defined(engine))
    => \A u \in UserIds : runtime.user_orders_[u] = PlacedBy(u) \ CancelSucceeded

\* the workers inside a job whose lambda updates the ownership map: a place
\* job that gets an id (insert) or a cancel job that succeeds (erase)
MapWriters ==
    {w \in Running :
        IF Len(workers_[w].job.execute) = 1
        THEN place_result(engine, ArgsOf(w, workers_[w].job.execute[1]).side,
                          ArgsOf(w, workers_[w].job.execute[1]).type) # NOT_FOUND
        ELSE /\ workers_[w].job.execute[2] = "cancel_order"
             /\ can_cancel(engine, ArgsOf(w, workers_[w].job.execute[1]).order_id)}
\* the client thread is inside has_sufficient_shares, which looks the user
\* and the ticker up in the ownership map and walks the user's set
MapReaders == IF client.pc = "has_sufficient_shares" THEN {"client"} ELSE {}

(***************************************************************************)
(* C24. Accesses to the user-ownership map are serialized: while a thread  *)
(* is in code that modifies the map, no other thread is in code that reads *)
(* or modifies it.                                                         *)
(***************************************************************************)
C24_OwnershipMapSerialized ==
    MapWriters # {} => (Cardinality(MapWriters) = 1 /\ MapReaders = {})

\* the sum of the remaining quantities of the OPEN ASK orders user u placed
OpenAskQty(u) ==
    TotalQty(engine, {id \in PlacedBy(u) \cap OpenIds(engine) : Order(engine, id).side_ = "ASK"})

(***************************************************************************)
(* C25. has_sufficient_shares(u, s, q) returns true exactly when the sum   *)
(* of the remaining quantities of u's OPEN ASK orders is at least q, and   *)
(* is monotonic in q.  Stated on the step at which the share check of an   *)
(* ASK request returns, with a free arena slot: the request goes on to be  *)
(* enqueued exactly when the user's open ask quantity covers it.           *)
(***************************************************************************)
C25_SufficientSharesIsOpenAskSum ==
    [][(validate /\ ~ArenaFull /\ Defined(engine))
       => /\ (runtime'.worker_arenas_ # runtime.worker_arenas_)
                <=> OpenAskQty(client.args.user_id) >= client.args.qty
          /\ \A q1, q2 \in 0..(MaxQty + 1) :
                (q1 <= q2 /\ has_sufficient_shares(runtime, engine, client.args.user_id, q2))
                => has_sufficient_shares(runtime, engine, client.args.user_id, q1)]_vars

\* unregister_stock returns true in this step
UnregisterReturnsTrue == client.pc = "unregister_erase" /\ client'.pc = "idle"
\* worker w holds a job it has popped and not finished executing
Holding(w) ==
    /\ workers_[w].pc \in {"pop_store_index", "execute", "running"}
    /\ workers_[w].job.execute # <<>>
\* the jobs of worker w's queue that are staged or published and not yet popped
Queued(w) ==
    job_queues_[w].write_index_ + (IF job_queues_[w].read_index_ < job_queues_[w].read_size_
                                   THEN job_queues_[w].read_size_ - job_queues_[w].read_index_
                                   ELSE 0)

(***************************************************************************)
(* C26. When unregister_stock(symbol) returns true, no job of the symbol's *)
(* engine is pending or still executing, and the symbol is gone from the   *)
(* registry and from every user's ownership map.                           *)
(***************************************************************************)
C26_UnregisterLeavesNoJob ==
    [][UnregisterReturnsTrue =>
          /\ Queued(runtime.worker_id_) = 0
          /\ ~Holding(runtime.worker_id_)
          /\ ~runtime'.registered
          /\ \A u \in UserIds : runtime'.user_orders_[u] = {}]_vars

\* register_stock succeeds in this step
RegisterReturnsTrue == client.pc = "idle" /\ ~runtime.registered /\ runtime'.registered
\* the jobs of worker w submitted and not finished: queued, or held by the worker
Pending(w) == Queued(w) + (IF Holding(w) THEN 1 ELSE 0)
\* what a caller can observe of the runtime rt with engine e
Observable(rt, e) ==
    [registered |-> rt.registered, engine_id_ |-> rt.engine_id_, worker_id_ |-> rt.worker_id_,
     order_pool_ |-> e.order_pool_, bid_book_ |-> e.bid_book_, ask_book_ |-> e.ask_book_,
     bid_levels_ |-> e.bid_levels_, ask_levels_ |-> e.ask_levels_,
     next_order_id_ |-> e.next_order_id_,
     user_orders_ |-> rt.user_orders_,
     occupancy |-> [w \in Workers |-> Len(rt.worker_arenas_[w])],
     batch_counter_ |-> rt.batch_counter_]
\* the runtimes a fresh construction followed by register_stock can yield
FreshlyRegistered ==
    {Observable([EngineRuntime(BatchSize, TRUE) EXCEPT
                     !.registered = TRUE, !.next_engine_id_ = 1,
                     !.user_orders_[IPO_HOLDER] = {0}], e) :
        e \in place_outcomes(NewEngine(TRUE), "ASK", "LIMIT", 1, MaxQty, now)}

(***************************************************************************)
(* C27. Whatever happened before, reset() followed by register_stock(s, p, *)
(* q) leaves the state a freshly constructed runtime has after             *)
(* register_stock(s, p, q): the same registry entry, book, order ids,      *)
(* ownership map and arena occupancy, and no job pending on any worker.    *)
(***************************************************************************)
C27_ResetThenRegisterIsFresh ==
    [][RegisterReturnsTrue =>
          /\ Observable(runtime', engine') \in FreshlyRegistered
          /\ \A w \in Workers : Pending(w) = 0]_vars

(***************************************************************************)
(* tools/Heap.cpp on its own: a Heap<int, MIN> or Heap<int, MAX> receiving *)
(* push(data) and pop(idx) with 0 <= idx < size.  The heap is kept in      *)
(* engine; no runtime is constructed.                                      *)
(***************************************************************************)
HeapInit ==
    /\ engine \in {[heap_ |-> <<>>, TYPE |-> t] : t \in {"MIN", "MAX"}}
    /\ now = 0
    /\ runtime = <<>>
    /\ job_queues_ = <<>>
    /\ workers_ = <<>>
    /\ client = <<>>
    /\ history = <<>>

heap_push ==
    /\ Len(engine.heap_) < MaxHeapLen
    /\ \E data \in 1..MaxHeapValue :
          engine' = [engine EXCEPT !.heap_ = push(engine.TYPE, @, data)]
    /\ UNCHANGED <<now, runtime, job_queues_, workers_, client, history>>

heap_pop ==
    /\ \E idx \in 0..(IF Len(engine.heap_) = 0 THEN 0 ELSE Len(engine.heap_) - 1) :
          engine' = [engine EXCEPT !.heap_ = pop(engine.TYPE, @, idx)]
    /\ UNCHANGED <<now, runtime, job_queues_, workers_, client, history>>

NextHeap ==
    \/ heap_push
    \/ heap_pop

SpecHeap == HeapInit /\ [][NextHeap]_vars

\* what successive peek(); pop() calls return until the heap is empty
RECURSIVE root_pops(_, _)
root_pops(TYPE, h) ==
    IF Len(h) = 0 THEN <<>> ELSE <<h[1]>> \o root_pops(TYPE, pop(TYPE, h, 0))

Sorted(TYPE, s) == \A i \in 1..(Len(s) - 1) : ~Before(TYPE, s[i + 1], s[i])

(***************************************************************************)
(* C28. After any sequence of push and pop(idx), interior indices          *)
(* included, peek returns the minimum (MIN) or maximum (MAX) of the stored *)
(* elements and successive root pops come out in sorted order.             *)
(***************************************************************************)
C28_HeapOrderAfterAnyPop ==
    /\ \A i \in 1..Len(engine.heap_) :
          ~Before(engine.TYPE, engine.heap_[i], peek(engine.heap_, 0))
    /\ Sorted(engine.TYPE, root_pops(engine.TYPE, engine.heap_))

(***************************************************************************)
(* Arena<T> on its own: emplace(value) and free(idx) on an arena of        *)
(* ArenaCapacity slots.  The arena is kept in runtime, the indices handed  *)
(* out and not yet freed in history, the last call and what it returned in *)
(* client.  free is called on live indices only.                           *)
(***************************************************************************)
\* Arena(capacity): data_.reserve(capacity); capacity_ is data_.capacity()
Arena(capacity) == [data_ |-> <<>>, free_ |-> <<>>, capacity_ |-> capacity]

\* an emplace that never looks at the free list
emplace_without_reuse(a, value) ==
    IF Len(a.data_) >= a.capacity_
    THEN [arena |-> a, idx |-> ARENA_FULL]
    ELSE [arena |-> [a EXCEPT !.data_ = Append(@, value)], idx |-> Len(a.data_)]

\* emplace(args...): the arena afterwards and the index returned
emplace(a, value) ==
    IF a.free_ # <<>>
    THEN [arena |-> [a EXCEPT !.free_ = SubSeq(@, 1, Len(@) - 1),
                              !.data_[a.free_[Len(a.free_)] + 1] = value],
          idx |-> a.free_[Len(a.free_)]]
    ELSE IF Len(a.data_) >= a.capacity_
    THEN [arena |-> a, idx |-> ARENA_FULL]
    ELSE [arena |-> [a EXCEPT !.data_ = Append(@, value)], idx |-> Len(a.data_)]

\* free(idx)
free(a, idx) == [a EXCEPT !.free_ = Append(@, idx)]

ArenaInit ==
    /\ runtime = Arena(ArenaCapacity)
    /\ history = {}
    /\ client = [op |-> "none", idx |-> 0]
    /\ engine = <<>>
    /\ now = 0
    /\ job_queues_ = <<>>
    /\ workers_ = <<>>

arena_emplace ==
    /\ \E value \in 1..MaxArenaValue :
          /\ runtime' = emplace(runtime, value).arena
          /\ client' = [op |-> "emplace", idx |-> emplace(runtime, value).idx]
          /\ history' = IF emplace(runtime, value).idx = ARENA_FULL THEN history
                        ELSE history \cup {emplace(runtime, value).idx}
    /\ UNCHANGED <<engine, now, job_queues_, workers_>>

arena_free ==
    /\ \E idx \in history :
          /\ runtime' = free(runtime, idx)
          /\ client' = [op |-> "free", idx |-> idx]
          /\ history' = history \ {idx}
    /\ UNCHANGED <<engine, now, job_queues_, workers_>>

NextArena ==
    \/ arena_emplace
    \/ arena_free

SpecArena == ArenaInit /\ [][NextArena]_vars

\* the indices waiting in the free list
Freed(a) == {a.free_[i] : i \in 1..Len(a.free_)}

(***************************************************************************)
(* C29. Over any sequence of emplace and free calls, each live index freed *)
(* at most once: emplace never returns a live index; it returns the full   *)
(* sentinel only when no slot is freed and capacity slots have been        *)
(* appended; it reuses a freed index when there is one; and it leaves the  *)
(* value at every other live index as it was.                              *)
(***************************************************************************)
C29_EmplaceHandsOutFreeSlots ==
    [][client'.op = "emplace" =>
          /\ client'.idx \notin history
          /\ client'.idx = ARENA_FULL
                => (runtime.free_ = <<>> /\ Len(runtime.data_) >= ArenaCapacity)
          /\ runtime.free_ # <<>> => client'.idx \in Freed(runtime)
          /\ \A j \in history :
                j # client'.idx => runtime'.data_[j + 1] = runtime.data_[j + 1]]_vars

\* emplace has just reused a freed slot while other indices are live and
\* another freed slot is still waiting
C29_FreedSlotReusedReached ==
    /\ client.op = "emplace"
    /\ client.idx # ARENA_FULL
    /\ client.idx < Len(runtime.data_) - 1
    /\ runtime.free_ # <<>>
    /\ Cardinality(history) >= 2

\* the client is inside submit_job's loop
InSubmitJob == client.pc \in {"submit_job", "yield"}

(***************************************************************************)
(* C30. With a single producer and fairly scheduled workers every          *)
(* submit_job call eventually returns (the worker id owner_id mod W),      *)
(* whatever capacity the scheduler's queues were constructed with, the     *)
(* runtime's default batch_size = 0 included.                              *)
(***************************************************************************)
C30_SubmitJobReturns == InSubmitJob ~> ~InSubmitJob

(***************************************************************************)
(* C31. When the scheduler's destructor returns, every job submitted       *)
(* before the destruction, flushed or not, has been executed, and every    *)
(* worker thread has terminated.                                           *)
(***************************************************************************)
C31_DestructorRunsEveryJob ==
    client.pc = "destroyed"
       => /\ \A w \in Workers : Unfinished(w) = {}
          /\ \A w \in Workers : workers_[w].pc = "exited"

(***************************************************************************)
(* C32. The matching loop never peeks an empty book: whatever the incoming *)
(* order and the book contents, every iteration stops when either side's   *)
(* book is empty, so placing an order makes no out-of-bounds read.         *)
(***************************************************************************)
C32_MatchLoopNeverPeeksEmptyBook ==
    [][history'.call.op = "place_order"
          => ~place_order(engine, history'.call.side, history'.call.type, history'.call.price,
                          history'.call.qty, now, NO_PRICE).oob]_vars

(***************************************************************************)
(* C33. Placing a LIMIT or MARKET order changes only that order and the    *)
(* opposite-side orders it trades with: every order that was already       *)
(* resting on the incoming order's own side keeps its record and its place *)
(* in its price level, and an order leaves its level only when its         *)
(* quantity has reached 0.                                                 *)
(***************************************************************************)
C33_PlaceLeavesOtherOrdersAlone ==
    [][history'.call.op = "place_order"
          => \A id \in Ids(engine) :
                /\ (Order(engine, id).side_ = history'.call.side /\ Order(engine, id).status_ = "OPEN")
                      => /\ Order(engine', id) = Order(engine, id)
                         /\ Places(engine', id) = Places(engine, id)
                /\ (Places(engine, id) # {} /\ Places(engine', id) = {})
                      => Order(engine', id).qty_ = 0]_vars

(***************************************************************************)
(* C34. The share-sufficiency check prevents offering more shares than     *)
(* exist: whatever the users call, the remaining quantity of all OPEN ASK  *)
(* orders of the symbol never exceeds the share count of its IPO.          *)
(***************************************************************************)
C34_OpenAsksWithinIpoShares ==
    (runtime.registered /\ Defined(engine)) => sum_qty(engine, Ids(engine)) <= MaxQty

(***************************************************************************)
(* C35. No user can cancel an order placed by another user: the job of a   *)
(* runtime cancel_order(symbol, id, user_id = u) changes order id only if  *)
(* id belongs to u's ownership set.                                        *)
(***************************************************************************)
C35_CancelOnlyOwnOrders ==
    [][\A w \in Workers :
          (/\ workers_[w].pc = "running"
           /\ workers_'[w].pc = "try_pop"
           /\ Len(workers_[w].job.execute) = 2
           /\ workers_[w].job.execute[2] = "cancel_order"
           /\ HasOrder(engine, ArgsOf(w, workers_[w].job.execute[1]).order_id)
           /\ Order(engine', ArgsOf(w, workers_[w].job.execute[1]).order_id)
                 # Order(engine, ArgsOf(w, workers_[w].job.execute[1]).order_id))
          => ArgsOf(w, workers_[w].job.execute[1]).order_id
                \in runtime.user_orders_[ArgsOf(w, workers_[w].job.execute[1]).user_id]]_vars

\* the engine that executing the first n jobs of an argument arena in
\* submission order leaves, from the engine register_stock builds
RECURSIVE InSubmissionOrder(_, _, _)
InSubmissionOrder(arena, n, t) ==
    IF n = 0
    THEN settle(place_order(NewEngine(TRUE), "ASK", "LIMIT", 1, MaxQty, t, NO_PRICE))
    ELSE settle(place_order(InSubmissionOrder(arena, n - 1, t), arena[n].side, arena[n].type,
                            arena[n].price, arena[n].qty, t, NO_PRICE))
\* the client is between calls and every queue has drained: nothing is
\* staged, published or held by a worker
QueuesDrained == client.pc = "idle" /\ \A w \in Workers : Pending(w) = 0

(***************************************************************************)
(* C36. Under a single producer the outcome does not depend on how the     *)
(* worker threads are scheduled, in blocking and in non-blocking mode:     *)
(* once the queues have drained, the engine and every result cell are what *)
(* the submitted operations give when executed one after the other in      *)
(* submission order (in executions without undefined behaviour).           *)
(***************************************************************************)
C36_OutcomeIndependentOfScheduling ==
    (QueuesDrained /\ runtime.registered /\ Defined(engine))
    => /\ engine = InSubmissionOrder(runtime.worker_arenas_[runtime.worker_id_],
                                     Len(runtime.worker_arenas_[runtime.worker_id_]), now)
       /\ \A j \in JobsOf(runtime.worker_id_) :
             runtime.cells[runtime.worker_id_][j + 1]
                = <<place_result(InSubmissionOrder(runtime.worker_arenas_[runtime.worker_id_], j, now),
                                 runtime.worker_arenas_[runtime.worker_id_][j + 1].side,
                                 runtime.worker_arenas_[runtime.worker_id_][j + 1].type)>>

(***************************************************************************)
(* OrderEngine with the capacity of its OrderInfo arena: order_pool_ is    *)
(* the Arena (the value in a slot is the id of the order stored there),    *)
(* order_table_[id + 1] the index recorded for id, and orders the engine    *)
(* as modelled above, where the record of an id is looked up directly.     *)
(* ub: place_order has dereferenced order_pool_[order_table_[id]] for an   *)
(* index outside the arena.                                                *)
(***************************************************************************)
OrderCapacity == 2

OrderEngine(capacity) ==
    [order_pool_ |-> Arena(capacity), order_table_ |-> <<>>, orders |-> NewEngine(TRUE),
     ub |-> FALSE]

\* place_order: "Map Id to Arena Index" and "Refrence Order", then the rest
\* of the call on the new order
pool_place_order(oe, side, type, price, qty, t) ==
    IF emplace(oe.order_pool_, oe.orders.next_order_id_).idx = ARENA_FULL
    THEN {[oe EXCEPT !.order_table_ = Append(@, ARENA_FULL),
                     !.orders.next_order_id_ = @ + 1,
                     !.ub = TRUE]}
    ELSE {[oe EXCEPT !.order_pool_ = emplace(oe.order_pool_, oe.orders.next_order_id_).arena,
                     !.order_table_ =
                         Append(@, emplace(oe.order_pool_, oe.orders.next_order_id_).idx),
                     !.orders = o] :
            o \in place_outcomes(oe.orders, side, type, price, qty, t)}

PoolInit ==
    /\ engine = OrderEngine(OrderCapacity)
    /\ now = 0
    /\ runtime = <<>>
    /\ job_queues_ = <<>>
    /\ workers_ = <<>>
    /\ client = <<>>
    /\ history = <<>>

PoolPlaceLimit ==
    /\ ~engine.ub
    /\ Defined(engine.orders)
    /\ \E side \in Sides, price \in Prices, qty \in Quantities :
          engine' \in pool_place_order(engine, side, "LIMIT", price, qty, now)
    /\ UNCHANGED <<now, schedVars>>

PoolPlaceMarket ==
    /\ ~engine.ub
    /\ Defined(engine.orders)
    /\ \E side \in Sides, qty \in Quantities :
          engine' \in pool_place_order(engine, side, "MARKET", MARKET_PRICE_ARG, qty, now)
    /\ UNCHANGED <<now, schedVars>>

NextPool == PoolPlaceLimit \/ PoolPlaceMarket

SpecPool == PoolInit /\ [][NextPool]_vars

(***************************************************************************)
(* C37. place_order on an engine whose OrderInfo arena is full fails       *)
(* cleanly: it never records an order-table entry that refers to an        *)
(* invalid arena slot, so every order-table entry designates a live        *)
(* OrderInfo.                                                              *)
(***************************************************************************)
C37_OrderTableDesignatesLiveSlots ==
    \A i \in 1..Len(engine.order_table_) :
        /\ engine.order_table_[i] \in 0..(Len(engine.order_pool_.data_) - 1)
        /\ engine.order_pool_.data_[engine.order_table_[i] + 1] = i - 1

(***************************************************************************)
(* engine_runtime.cpp: set_batch_size, and the runtime whose client        *)
(* changes the batch size between its limit orders and explicit batches.   *)
(***************************************************************************)
set_batch_size ==
    /\ client.pc = "idle"
    /\ \E batch_size \in 0..BatchSize :
          runtime' = [runtime EXCEPT !.batch_size_ = batch_size, !.batch_counter_ = 0]
    /\ UNCHANGED <<engine, now, job_queues_, workers_, client, history>>

NextBatch ==
    \/ register_stock
    \/ limit_order
    \/ validate
    \/ set_batch_size
    \/ execute_batch
    \/ flush_begin
    \/ flush_swap
    \/ flush_read_size
    \/ flush_read_index
    \/ flush_write_index
    \/ wait_for_completion
    \/ pop_load_index(runtime.worker_id_)
    \/ pop_load_size(runtime.worker_id_)
    \/ pop_move(runtime.worker_id_)
    \/ pop_store_index(runtime.worker_id_)
    \/ job_begin(runtime.worker_id_)
    \/ job_end(runtime.worker_id_)

SpecBatch == Init /\ [][NextBatch]_vars

(***************************************************************************)
(* C38. After set_batch_size(0) batching is manual only: no order          *)
(* operation triggers an automatic flush, so while the batch size is 0 the *)
(* client enters a flush only through an explicit execute_batch call (the  *)
(* flush of all queues), never on return from an order operation.          *)
(***************************************************************************)
C38_BatchSizeZeroIsManualOnly ==
    [][(runtime.batch_size_ = 0 /\ client.pc # "flush" /\ client'.pc = "flush")
          => (client.pc = "idle" /\ client'.all)]_vars

(***************************************************************************)
(* The engine taking LIMIT orders and cancellations, each step recording   *)
(* its call, over runs of one more order than SpecCalls.                   *)
(***************************************************************************)
MaxLoopOrders == 4

LoopPlaceLimit ==
    /\ engine.next_order_id_ < MaxLoopOrders
    /\ \E side \in Sides, price \in Prices, qty \in Quantities :
          /\ engine' \in place_outcomes(engine, side, "LIMIT", price, qty, now)
          /\ Recorded(Call("place_order", side, "LIMIT", price, qty, engine.next_order_id_))

LoopCancel ==
    \E id \in 0..(engine.next_order_id_ - 1) :
        /\ can_cancel(engine, id)
        /\ engine' = settle(cancel_order(engine, id))
        /\ Recorded(Call("cancel_order", "BID", "LIMIT", 0, 0, id))

NextLoop == LoopPlaceLimit \/ LoopCancel

SpecLoop == Init /\ [][NextLoop]_vars

\* the number of times the body of the match loop of matching_engine is
\* entered when the loop starts on e (an iteration that ends in a break
\* counts), following match_loop step by step
RECURSIVE loop_iterations(_, _)
iterations_from(e, stale, best_ask_price, best_bid_price) ==
    IF ~can_trade(Order(e, e.recent_order_id_), best_ask_price, best_bid_price) THEN 1
    ELSE IF \/ LevelAt(e.ask_levels_, best_ask_price) = <<>>
            \/ LevelAt(e.bid_levels_, best_bid_price) = <<>>
    THEN 1
    ELSE IF Order(e, e.recent_order_id_).side_ = "ASK"
    THEN 1 + loop_iterations(
                 matching(get_levels(read_best(e), best_ask_price, best_bid_price),
                          e.recent_order_id_, e.bid_levels_[best_bid_price][1][2],
                          best_ask_price, best_bid_price), stale)
    ELSE 1 + loop_iterations(
                 matching(get_levels(read_best(e), best_ask_price, best_bid_price),
                          e.ask_levels_[best_ask_price][1][2], e.recent_order_id_,
                          best_ask_price, best_bid_price), stale)

loop_iterations(e, stale) ==
    IF Order(e, e.recent_order_id_).status_ = "OPEN" /\ Order(e, e.recent_order_id_).qty_ > 0
    THEN iterations_from(e, stale, peek(e.ask_book_, stale), peek(e.bid_book_, stale))
    ELSE 0

\* the engine on which place_order starts the matching engine
queued(e, side, type, price, qty, t) ==
    set_recent(
      insert_level(
        new_order(e, side, type, qty, stored_price(e, side, type, price), t, "OPEN"),
        side, price, t, e.next_order_id_),
      e.next_order_id_)

\* the orders resting on one side
Resting(e, side) == {id \in OpenIds(e) : Order(e, id).side_ = side}

(***************************************************************************)
(* C39. Every invocation of the match loop terminates after at most one    *)
(* more iteration than the number of orders resting on the opposite side,  *)
(* for every reachable book and every incoming order (whatever a peek of   *)
(* an emptied book reads).                                                 *)
(***************************************************************************)
C39_MatchLoopIterationsBounded ==
    [][(/\ history'.call.op = "place_order"
        /\ ~market_rejected(engine, history'.call.side, history'.call.type)
        /\ Len(engine.ask_book_) + Len(engine.bid_book_) > 0)
          => \A stale \in StalePrices \cup {NO_PRICE} :
                loop_iterations(queued(engine, history'.call.side, history'.call.type,
                                       history'.call.price, history'.call.qty, now), stale)
                   <= Cardinality(Resting(engine, Opposite(history'.call.side))) + 1]_vars

(***************************************************************************)
(* The runtime with room for one more job than BatchSize, so that a batch  *)
(* can follow the three jobs a lost job takes: one client, and the worker  *)
(* that serves the registered stock.                                       *)
(***************************************************************************)
BufferInit ==
    /\ EngineInit
    /\ runtime = EngineRuntime(BatchSize + 1, TRUE)
    /\ job_queues_ = [w \in Workers |-> DoubleBuffer(BatchSize + 1)]
    /\ workers_ = [w \in Workers |-> WorkerThread]
    /\ client = ClientThread
    /\ history = [flushed |-> [w \in Workers |-> 0], started |-> [w \in Workers |-> <<>>],
                  call |-> NoCall]

NextBuffer ==
    \/ register_stock
    \/ limit_order
    \/ validate
    \/ execute_batch
    \/ flush_begin
    \/ flush_swap
    \/ flush_read_size
    \/ flush_read_index
    \/ flush_write_index
    \/ wait_for_completion
    \/ pop_load_index(runtime.worker_id_)
    \/ pop_load_size(runtime.worker_id_)
    \/ pop_move(runtime.worker_id_)
    \/ pop_store_index(runtime.worker_id_)
    \/ job_begin(runtime.worker_id_)
    \/ job_end(runtime.worker_id_)

SpecBuffer == BufferInit /\ [][NextBuffer]_vars

\* the slot the consumer is about to move out of, and the slot the next
\* try_push of the producer writes
ReadSlot(w) == <<job_queues_[w].read_buffer_, workers_[w].idx>>
WriteSlot(w) == <<job_queues_[w].write_buffer_, job_queues_[w].write_index_>>
\* flush exchanges the buffer pointers of queue w in this step
Exchanged(w) == job_queues_'[w].read_buffer_ # job_queues_[w].read_buffer_

(***************************************************************************)
(* C40. In the double-buffer queue the producer and the consumer never     *)
(* access the same buffer slot concurrently: the write and read pointers   *)
(* always designate different buffers, a consumer about to move an item    *)
(* out never does so from the slot the producer writes next, and flush     *)
(* exchanges the pointers only after the consumer has moved every item out *)
(* of the current read buffer.                                             *)
(***************************************************************************)
C40_BuffersNeverShared ==
    [][\A w \in Workers :
          /\ job_queues_'[w].write_buffer_ # job_queues_'[w].read_buffer_
          /\ workers_'[w].pc = "pop_move" => ReadSlot(w)' # WriteSlot(w)'
          /\ Exchanged(w)
                => /\ workers_[w].pc # "pop_move"
                   /\ \A i \in 1..job_queues_[w].read_size_ :
                         job_queues_[w][job_queues_[w].read_buffer_][i].execute = <<>>]_vars
====
